---- MODULE Spec2Model ----
(***************************************************************************)
(* Model of the NovelZed chapter store (crates/novel_chapter): the          *)
(* in-memory NovelProject, the directory tree it owns on disk, and every    *)
(* public operation of NovelProject as one atomic action.                   *)
(*                                                                         *)
(* Conventions.  Option<T> is a sequence of length 0 (None) or 1 (Some).    *)
(* A String is a sequence of one-character strings.  A file that does not   *)
(* exist is the empty option.  SystemTime fields carry no behaviour that    *)
(* any operation reads back and are left out of the records.                *)
(***************************************************************************)
EXTENDS Integers, Sequences, FiniteSets, TLC

\* ------------------------------------------------------------------ bounds
MaxChapters == 2
MaxVolumes == 2
MaxVolumeIds == 2
MaxVersion == 4
MaxListLen == 2

\* ------------------------------------------------------------ input sets
ChapterIds == 0 .. (MaxChapters - 1)
ChapterIdInputs == 0 .. MaxChapters
Titles == {"T1", "T2"}
DefaultVolumeTitle == "Volume 1"
Statuses == {"NotStarted", "InProgress", "Draft", "Review", "Complete"}
StatusInputs == {"Draft", "Complete"}
Whitespace == {" "}
Contents == {<<>>, <<"a">>, <<"a", " ", "b">>}
VersionInputs == 0 .. MaxVersion
PositionInputs == 0 .. MaxListLen
AutoSaveSummary == <<"auto-save">>
DefaultSettings == [characters |-> <<>>, world |-> <<>>, plot_points |-> <<>>]

\* ---------------------------------------------------------------- helpers
None == <<>>
Some(x) == <<x>>
IsSome(o) == Len(o) = 1
Unwrap(o) == o[1]

Range(s) == {s[i] : i \in DOMAIN s}

Max(S) == CHOOSE m \in S : \A x \in S : x <= m

Min2(a, b) == IF a <= b THEN a ELSE b

\* iter().position(|x| *x == e): 1-based index of the first match, 0 if none
Position(s, e) ==
  IF e \in Range(s) THEN CHOOSE i \in DOMAIN s : s[i] = e /\ \A j \in 1 .. (i - 1) : s[j] # e
  ELSE 0

\* iter().position over the volume list, by volume id
VolumePosition(vols, vid) ==
  IF \E i \in DOMAIN vols : vols[i].id = vid
  THEN CHOOSE i \in DOMAIN vols : vols[i].id = vid /\ \A j \in 1 .. (i - 1) : vols[j].id # vid
  ELSE 0

\* Vec::remove(i), i 1-based
RemoveAt(s, i) == SubSeq(s, 1, i - 1) \o SubSeq(s, i + 1, Len(s))

\* Vec::insert(p, x), p 0-based and p <= len
InsertAt(s, p, x) == SubSeq(s, 1, p) \o <<x>> \o SubSeq(s, p + 1, Len(s))

\* HashMap::insert / HashMap::remove on a function with a finite domain
MapInsert(m, k, v) == [x \in (DOMAIN m) \cup {k} |-> IF x = k THEN v ELSE m[x]]
MapRemove(m, k) == [x \in (DOMAIN m) \ {k} |-> m[x]]
EmptyMap == [x \in {} |-> 0]

\* all sequences over S of length at most n
RECURSIVE SeqsUpTo(_, _)
SeqsUpTo(S, n) ==
  IF n = 0 THEN {<<>>}
  ELSE LET shorter == SeqsUpTo(S, n - 1)
       IN shorter \cup {Append(s, x) : s \in {t \in shorter : Len(t) = n - 1}, x \in S}

\* str::split_whitespace().count(): the number of maximal runs of
\* non-whitespace characters
RECURSIVE WordCountFrom(_, _, _)
WordCountFrom(s, i, inWord) ==
  IF i > Len(s) THEN 0
  ELSE IF s[i] \in Whitespace THEN WordCountFrom(s, i + 1, FALSE)
  ELSE (IF inWord THEN 0 ELSE 1) + WordCountFrom(s, i + 1, TRUE)

WordCount(s) == WordCountFrom(s, 1, FALSE)

\* ------------------------------------------------------------- file names
\* root_path.join("chapters").join(format!("chapter-{}", id.0))
ChapterDirName(id) == <<"chapter-", id>>

\* history_dir.join(format!("v{}.json", version))
VersionFileName(n) == <<"v", n, ".json">>

\* name.starts_with("v") && name.ends_with(".json"), then
\* name[1..len-5].parse::<u32>()
ParseVersionFileName(name) ==
  IF Len(name) = 3 /\ name[1] = "v" /\ name[3] = ".json" /\ name[2] \in Nat
  THEN Some(name[2]) ELSE None

ProjectFile == "project.json"
CharactersFile == "characters.json"
WorldFile == "world.json"
PlotFile == "plot.json"

\* ------------------------------------------------------------------ state
VARIABLES
  title,         \* NovelProject.title
  volumes,       \* NovelProject.volumes: sequence of Volume records
  chapters,      \* NovelProject.chapters: ChapterId -> Chapter record
  settings,      \* NovelProject.settings
  root_dirs,     \* directories that exist directly under root_path
  novel_files,   \* files in root_path/.novel: name -> content
  chapter_dirs,  \* directories in root_path/chapters: name -> directory
  next_uuid,     \* Uuid::new_v4(): the number of the next identifier it returns
  last,          \* the most recent call: operation, Ok/Err, returned value
  written,       \* history variable, per chapter created by this instance:
                 \* the arguments of its update_chapter_content calls so far
  project,          \* NovelChaptersPanel.project is Some: the panel holds the NovelProject
  expanded_volumes, \* NovelChaptersPanel.expanded_volumes
  selected_item,    \* NovelChaptersPanel.selected_item
  editing_item,     \* NovelChaptersPanel.editing_item
  messages,         \* NovelAIPanel.messages
  input_text,       \* NovelAIPanel.input_text
  is_generating,    \* NovelAIPanel.is_generating
  pending_request,  \* NovelAIPanel.pending_request: the number of the task it holds
  request           \* the future spawned by generate_ai_response: position and locals

\* the fields of NovelChaptersPanel and of NovelAIPanel
chapters_panel == <<project, expanded_volumes, selected_item, editing_item>>
ai_panel == <<messages, input_text, is_generating, pending_request, request>>
ui == <<chapters_panel, ai_panel>>

vars == <<title, volumes, chapters, settings, root_dirs, novel_files, chapter_dirs,
          next_uuid, last, written, chapters_panel, ai_panel>>

mem == <<title, volumes, chapters, settings>>
disk == <<root_dirs, novel_files, chapter_dirs>>

\* ------------------------------------------------------------ record types
Volume(id, t, order, cids) ==
  [id |-> id, title |-> t, order |-> order, chapter_ids |-> cids]

ChapterVersion(v, content, wc, summary) ==
  [version |-> v, content |-> content, word_count |-> wc, summary |-> summary]

\* an empty directory created by create_dir_all
EmptyDir == [metadata |-> None, content |-> None, history_dir |-> FALSE, history |-> EmptyMap]

Call(op, ok, ret) == [op |-> op, ok |-> ok, ret |-> ret]

\* ------------------------------------------------------------ persistence
\* serde_json::to_string_pretty(self) / serde_json::from_str: every field of
\* NovelProject is serialized; load overwrites root_path afterwards
SerializeProject(t, vols, chs, st) ==
  [title |-> t, volumes |-> vols, chapters |-> chs, settings |-> st]

\* save_settings: three independent files
SaveSettings(files, st) ==
  MapInsert(MapInsert(MapInsert(files, CharactersFile, st.characters),
                      WorldFile, st.world), PlotFile, st.plot_points)

\* save_metadata writes into root_path/.novel, which it does not create
CanSaveMetadata(dirs) == ".novel" \in dirs

SaveMetadata(files, t, vols, chs, st) ==
  SaveSettings(MapInsert(files, ProjectFile, SerializeProject(t, vols, chs, st)), st)

\* the files of .novel after a call that ends in save_metadata().await?
Persisted(dirs, t, vols, chs, st) ==
  IF CanSaveMetadata(dirs) THEN SaveMetadata(novel_files, t, vols, chs, st) ELSE novel_files

\* a save_chapter_metadata that returns without writing the file
SaveChapterMetadataSkipped(d, ch) == d

\* save_chapter_metadata: the whole Chapter, content included
SaveChapterMetadata(d, ch) == [d EXCEPT !.metadata = Some(ch)]

\* std::fs::create_dir_all(root/chapters/<name>)
CreateChapterDir(dirs, name) ==
  IF name \in DOMAIN dirs THEN dirs ELSE MapInsert(dirs, name, EmptyDir)

\* a delete_chapter_files that leaves the directory on disk
DeleteChapterFilesKept(dirs, ch) == dirs

\* a delete_chapter_files that removes every directory of root/chapters
DeleteChapterFilesAll(dirs, ch) == EmptyMap

\* delete_chapter_files: remove_dir_all when the directory exists
DeleteChapterFiles(dirs, ch) ==
  IF ch.dir_path \in DOMAIN dirs THEN MapRemove(dirs, ch.dir_path) ELSE dirs

\* ------------------------------------------------------------------- load
\* get_latest_version: 0 without a history directory, else the largest
\* number parsed from a file name v<number>.json, starting from 0
GetLatestVersion(d) ==
  IF ~d.history_dir THEN 0
  ELSE Max({0} \cup {Unwrap(ParseVersionFileName(n)) :
                       n \in {f \in DOMAIN d.history : IsSome(ParseVersionFileName(f))}})

\* load_chapter_directory for a directory that holds metadata.json
LoadChapterDirectory(name, d) ==
  LET m == Unwrap(d.metadata)
  IN [m EXCEPT !.content = IF IsSome(d.content) THEN Unwrap(d.content) ELSE @,
               !.word_count = IF IsSome(d.content) THEN WordCount(Unwrap(d.content)) ELSE @,
               !.dir_path = name,
               !.current_version = GetLatestVersion(d)]

\* the directories of root/chapters that hold a metadata.json
LoadableDirs(dirs) == {n \in DOMAIN dirs : IsSome(dirs[n].metadata)}

\* reload_chapters: every loadable directory is inserted under the id its
\* metadata names (a directory chapter-<k> only ever receives the metadata
\* of chapter k, so no two directories name the same id)
ReloadChapters(chs, rdirs, dirs) ==
  IF "chapters" \notin rdirs THEN chs
  ELSE LET ids == {Unwrap(dirs[n].metadata).id : n \in LoadableDirs(dirs)}
           dirOf(id) == CHOOSE n \in LoadableDirs(dirs) : Unwrap(dirs[n].metadata).id = id
       IN [id \in (DOMAIN chs) \cup ids |->
             IF id \in ids THEN LoadChapterDirectory(dirOf(id), dirs[dirOf(id)]) ELSE chs[id]]

\* NovelProject::load as a function of the disk: the project it returns
LoadProject(rdirs, files, dirs) ==
  LET p == files[ProjectFile]
  IN [title |-> p.title, volumes |-> p.volumes, settings |-> p.settings,
      chapters |-> ReloadChapters(p.chapters, rdirs, dirs)]

CanLoad(rdirs, files) == ".novel" \in rdirs /\ ProjectFile \in DOMAIN files

\* ----------------------------------------------------------------- panels
\* the future of generate_ai_response before any request was spawned
NoRequest == [pc |-> "none", prompt |-> <<>>, full_response |-> <<>>, items |-> 0,
              response |-> None, asked_at |-> 0]

\* NovelChaptersPanel::new and NovelAIPanel::new
PanelsNew ==
  /\ project = FALSE
  /\ expanded_volumes = <<>>
  /\ selected_item = None
  /\ editing_item = None
  /\ messages = <<>>
  /\ input_text = <<>>
  /\ is_generating = FALSE
  /\ pending_request = None
  /\ request = NoRequest

\* ------------------------------------------------------------------- Init
\* NovelProject::new(root_path, title) on an empty root directory
ProjectTitles == {"Test Novel"}

Init ==
  /\ title \in ProjectTitles
  /\ volumes = <<Volume(1, DefaultVolumeTitle, 0, <<>>)>>
  /\ chapters = EmptyMap
  /\ settings = DefaultSettings
  /\ root_dirs = {}
  /\ novel_files = EmptyMap
  /\ chapter_dirs = EmptyMap
  /\ next_uuid = 2
  /\ last = Call("new", TRUE, None)
  /\ written = EmptyMap
  /\ PanelsNew

\* ------------------------------------------------- lifecycle operations
\* a constructor that also creates the project directories
NewAndInitialize(t) ==
  /\ next_uuid <= MaxVolumeIds
  /\ title' = t
  /\ volumes' = <<Volume(next_uuid, DefaultVolumeTitle, 0, <<>>)>>
  /\ chapters' = EmptyMap
  /\ settings' = DefaultSettings
  /\ next_uuid' = next_uuid + 1
  /\ root_dirs' = root_dirs \cup {".novel", "chapters", "drafts"}
  /\ last' = Call("new", TRUE, None)
  /\ UNCHANGED <<novel_files, chapter_dirs>>

\* NovelProject::new(root_path, title) called again for the same root: the
\* project in memory is replaced by a new one, the disk is not read or written
New(t) ==
  /\ next_uuid <= MaxVolumeIds
  /\ title' = t
  /\ volumes' = <<Volume(next_uuid, DefaultVolumeTitle, 0, <<>>)>>
  /\ chapters' = EmptyMap
  /\ settings' = DefaultSettings
  /\ next_uuid' = next_uuid + 1
  /\ last' = Call("new", TRUE, None)
  /\ UNCHANGED <<root_dirs, novel_files, chapter_dirs>>

Initialize ==
  /\ root_dirs' = root_dirs \cup {".novel", "chapters", "drafts"}
  /\ novel_files' = SaveMetadata(novel_files, title, volumes, chapters, settings)
  /\ last' = Call("initialize", TRUE, None)
  /\ UNCHANGED <<title, volumes, chapters, settings, chapter_dirs, next_uuid>>

\* save_metadata() called by the client: project.json and the three settings
\* files are rewritten from memory; while root/.novel is missing the first
\* write fails and nothing changes
CallSaveMetadata ==
  /\ IF CanSaveMetadata(root_dirs)
     THEN /\ novel_files' = SaveMetadata(novel_files, title, volumes, chapters, settings)
          /\ last' = Call("save_metadata", TRUE, None)
     ELSE /\ last' = Call("save_metadata", FALSE, None)
          /\ UNCHANGED novel_files
  /\ UNCHANGED <<title, volumes, chapters, settings, root_dirs, chapter_dirs, next_uuid>>

Load ==
  IF CanLoad(root_dirs, novel_files)
  THEN LET p == LoadProject(root_dirs, novel_files, chapter_dirs)
       IN /\ title' = p.title
          /\ volumes' = p.volumes
          /\ chapters' = p.chapters
          /\ settings' = p.settings
          /\ last' = Call("load", TRUE, None)
          /\ UNCHANGED <<root_dirs, novel_files, chapter_dirs, next_uuid>>
  ELSE /\ last' = Call("load", FALSE, None)
       /\ UNCHANGED <<title, volumes, chapters, settings, root_dirs, novel_files,
                      chapter_dirs, next_uuid>>

\* ------------------------------------------------------ volume operations
\* a delete_volume that leaves the remaining volumes' order fields alone
RenumberVolumesKept(vols) == vols

\* for (new_order, volume) in self.volumes.iter_mut().enumerate()
RenumberVolumes(vols) == [i \in DOMAIN vols |-> [vols[i] EXCEPT !.order = i - 1]]

\* the index entries delete_volume removes: the ids listed in the volume
DeleteVolumeTargets(vol, chs) == Range(vol.chapter_ids) \cap DOMAIN chs

\* the directories delete_volume removes: dir_path of every removed chapter
RemoveChapterDirs(dirs, chs, ids) ==
  [n \in (DOMAIN dirs) \ {chs[id].dir_path : id \in ids} |-> dirs[n]]

CreateVolume(t) ==
  /\ Len(volumes) < MaxVolumes
  /\ next_uuid <= MaxVolumeIds
  /\ volumes' = Append(volumes, Volume(next_uuid, t, Len(volumes), <<>>))
  /\ next_uuid' = next_uuid + 1
  /\ novel_files' = Persisted(root_dirs, title, volumes', chapters, settings)
  /\ last' = Call("create_volume", CanSaveMetadata(root_dirs), Some(next_uuid))
  /\ UNCHANGED <<title, chapters, settings, root_dirs, chapter_dirs>>

DeleteVolume(vid) ==
  LET index == VolumePosition(volumes, vid)
  IN IF index = 0
     THEN /\ last' = Call("delete_volume", TRUE, None)
          /\ UNCHANGED <<title, volumes, chapters, settings, root_dirs, novel_files,
                         chapter_dirs, next_uuid>>
     ELSE LET gone == DeleteVolumeTargets(volumes[index], chapters)
          IN /\ chapters' = [id \in (DOMAIN chapters) \ gone |-> chapters[id]]
             /\ chapter_dirs' = RemoveChapterDirs(chapter_dirs, chapters, gone)
             /\ volumes' = RenumberVolumes(RemoveAt(volumes, index))
             /\ novel_files' = Persisted(root_dirs, title, volumes', chapters', settings)
             /\ last' = Call("delete_volume", CanSaveMetadata(root_dirs), None)
             /\ UNCHANGED <<title, settings, root_dirs, next_uuid>>

\* a rename_volume that reports an unknown id as an error
RenameVolumeStrict(vid, t) ==
  LET index == VolumePosition(volumes, vid)
  IN IF index = 0
     THEN /\ last' = Call("rename_volume", FALSE, None)
          /\ UNCHANGED <<title, volumes, chapters, settings, root_dirs, novel_files,
                         chapter_dirs, next_uuid>>
     ELSE /\ volumes' = [volumes EXCEPT ![index].title = t]
          /\ novel_files' = Persisted(root_dirs, title, volumes', chapters, settings)
          /\ last' = Call("rename_volume", CanSaveMetadata(root_dirs), None)
          /\ UNCHANGED <<title, chapters, settings, root_dirs, chapter_dirs, next_uuid>>

RenameVolume(vid, t) ==
  LET index == VolumePosition(volumes, vid)
  IN IF index = 0
     THEN /\ last' = Call("rename_volume", TRUE, None)
          /\ UNCHANGED <<title, volumes, chapters, settings, root_dirs, novel_files,
                         chapter_dirs, next_uuid>>
     ELSE /\ volumes' = [volumes EXCEPT ![index].title = t]
          /\ novel_files' = Persisted(root_dirs, title, volumes', chapters, settings)
          /\ last' = Call("rename_volume", CanSaveMetadata(root_dirs), None)
          /\ UNCHANGED <<title, chapters, settings, root_dirs, chapter_dirs, next_uuid>>

\* ----------------------------------------------------- chapter operations
\* ChapterId(self.chapters.len() as u64)
NextChapterId(chs) == Cardinality(DOMAIN chs)

NewChapter(id, t, order, vid) ==
  [id |-> id, title |-> t, order |-> order, volume_id |-> vid,
   dir_path |-> ChapterDirName(id), content |-> <<>>, word_count |-> 0,
   status |-> "NotStarted", current_version |-> 0]

\* a target that is always the first volume, whatever volume_id says
TargetVolumePositionFirst(vols, vopt) == IF Len(vols) > 0 THEN 1 ELSE 0

\* a target that falls back to the first volume when volume_id is unknown
TargetVolumePositionOrFirst(vols, vopt) ==
  IF IsSome(vopt) /\ VolumePosition(vols, Unwrap(vopt)) # 0
  THEN VolumePosition(vols, Unwrap(vopt))
  ELSE IF Len(vols) > 0 THEN 1 ELSE 0

\* volume_id.unwrap_or_else(|| first volume's id, or a new random id):
\* the position of the target volume, 0 when no volume has the id
TargetVolumePosition(vols, vopt) ==
  IF IsSome(vopt) THEN VolumePosition(vols, Unwrap(vopt))
  ELSE IF Len(vols) > 0 THEN 1 ELSE 0

CreateChapter(t, vopt) ==
  LET index == TargetVolumePosition(volumes, vopt)
  IN IF index = 0
     THEN /\ last' = Call("create_chapter", FALSE, None)
          /\ UNCHANGED <<title, volumes, chapters, settings, root_dirs, novel_files,
                         chapter_dirs, next_uuid>>
     ELSE LET id == NextChapterId(chapters)
              chapter == NewChapter(id, t, Len(volumes[index].chapter_ids), volumes[index].id)
              dirs1 == CreateChapterDir(chapter_dirs, chapter.dir_path)
          IN /\ Cardinality(DOMAIN chapters) < MaxChapters
             /\ Len(volumes[index].chapter_ids) < MaxListLen
             /\ root_dirs' = root_dirs \cup {"chapters"}
             /\ chapter_dirs' = [dirs1 EXCEPT ![chapter.dir_path] =
                                   [SaveChapterMetadata(@, chapter) EXCEPT !.content = Some(<<>>)]]
             /\ chapters' = MapInsert(chapters, id, chapter)
             /\ volumes' = [volumes EXCEPT ![index].chapter_ids = Append(@, id)]
             /\ novel_files' = Persisted(root_dirs', title, volumes', chapters', settings)
             /\ last' = Call("create_chapter", CanSaveMetadata(root_dirs'), Some(id))
             /\ UNCHANGED <<title, settings, next_uuid>>

\* a renumbering that leaves every chapter's order as it was
RenumberChaptersKept(chs, ids) == chs

\* for (new_order, chapter_id) in ids.iter().enumerate(): ch.order = new_order,
\* so an id listed more than once keeps its last index
RenumberChapters(chs, ids) ==
  [k \in DOMAIN chs |->
     IF k \in Range(ids)
     THEN [chs[k] EXCEPT !.order = Max({i \in DOMAIN ids : ids[i] = k}) - 1]
     ELSE chs[k]]

\* the first volume whose chapter_ids contains the id, 0 if none
FirstVolumeListing(vols, id) ==
  IF \E i \in DOMAIN vols : id \in Range(vols[i].chapter_ids)
  THEN CHOOSE i \in DOMAIN vols :
         /\ id \in Range(vols[i].chapter_ids)
         /\ \A j \in 1 .. (i - 1) : id \notin Range(vols[j].chapter_ids)
  ELSE 0

DeleteChapter(id) ==
  IF id \notin DOMAIN chapters
  THEN /\ last' = Call("delete_chapter", TRUE, None)
       /\ UNCHANGED <<title, volumes, chapters, settings, root_dirs, novel_files,
                      chapter_dirs, next_uuid>>
  ELSE LET removed == MapRemove(chapters, id)
           index == FirstVolumeListing(volumes, id)
           ids == IF index = 0 THEN <<>>
                  ELSE RemoveAt(volumes[index].chapter_ids, Position(volumes[index].chapter_ids, id))
       IN /\ volumes' = IF index = 0 THEN volumes ELSE [volumes EXCEPT ![index].chapter_ids = ids]
          /\ chapters' = IF index = 0 THEN removed ELSE RenumberChapters(removed, ids)
          /\ chapter_dirs' = DeleteChapterFiles(chapter_dirs, chapters[id])
          /\ novel_files' = Persisted(root_dirs, title, volumes', chapters', settings)
          /\ last' = Call("delete_chapter", CanSaveMetadata(root_dirs), None)
          /\ UNCHANGED <<title, settings, root_dirs, next_uuid>>

RenameChapter(id, t) ==
  IF id \notin DOMAIN chapters
  THEN /\ last' = Call("rename_chapter", TRUE, None)
       /\ UNCHANGED <<title, volumes, chapters, settings, root_dirs, novel_files,
                      chapter_dirs, next_uuid>>
  ELSE LET chapter == [chapters[id] EXCEPT !.title = t]
           wrote == chapter.dir_path \in DOMAIN chapter_dirs
       IN /\ chapters' = [chapters EXCEPT ![id] = chapter]
          /\ chapter_dirs' = IF wrote
                             THEN [chapter_dirs EXCEPT ![chapter.dir_path] = SaveChapterMetadata(@, chapter)]
                             ELSE chapter_dirs
          /\ novel_files' = IF wrote THEN Persisted(root_dirs, title, volumes, chapters', settings)
                            ELSE novel_files
          /\ last' = Call("rename_chapter", wrote /\ CanSaveMetadata(root_dirs), None)
          /\ UNCHANGED <<title, volumes, settings, root_dirs, next_uuid>>

UpdateChapterStatus(id, status) ==
  IF id \notin DOMAIN chapters
  THEN /\ last' = Call("update_chapter_status", TRUE, None)
       /\ UNCHANGED <<title, volumes, chapters, settings, root_dirs, novel_files,
                      chapter_dirs, next_uuid>>
  ELSE LET chapter == [chapters[id] EXCEPT !.status = status]
           wrote == chapter.dir_path \in DOMAIN chapter_dirs
       IN /\ chapters' = [chapters EXCEPT ![id] = chapter]
          /\ chapter_dirs' = IF wrote
                             THEN [chapter_dirs EXCEPT ![chapter.dir_path] = SaveChapterMetadata(@, chapter)]
                             ELSE chapter_dirs
          /\ last' = Call("update_chapter_status", wrote, None)
          /\ UNCHANGED <<title, volumes, settings, root_dirs, novel_files, next_uuid>>

\* a validation that only tests that every id of new_order is in the index
ReorderOffenderUnknownOnly(chs, vid, new_order) ==
  LET bad == {i \in DOMAIN new_order : new_order[i] \notin DOMAIN chs}
  IN IF bad = {} THEN None ELSE Some(new_order[CHOOSE i \in bad : \A j \in bad : i <= j])

\* the first id of new_order that fails validation, as an option
ReorderOffender(chs, vid, new_order) ==
  LET bad == {i \in DOMAIN new_order :
                \/ new_order[i] \notin DOMAIN chs
                \/ chs[new_order[i]].volume_id # vid}
  IN IF bad = {} THEN None ELSE Some(new_order[CHOOSE i \in bad : \A j \in bad : i <= j])

ReorderChaptersInVolume(vid, new_order) ==
  LET index == VolumePosition(volumes, vid)
  IN IF index = 0
     THEN /\ last' = Call("reorder_chapters_in_volume", TRUE, None)
          /\ UNCHANGED <<title, volumes, chapters, settings, root_dirs, novel_files,
                         chapter_dirs, next_uuid>>
     ELSE IF IsSome(ReorderOffender(chapters, vid, new_order))
     THEN /\ last' = Call("reorder_chapters_in_volume", FALSE,
                          ReorderOffender(chapters, vid, new_order))
          /\ UNCHANGED <<title, volumes, chapters, settings, root_dirs, novel_files,
                         chapter_dirs, next_uuid>>
     ELSE /\ volumes' = [volumes EXCEPT ![index].chapter_ids = new_order]
          /\ chapters' = RenumberChapters(chapters, new_order)
          /\ novel_files' = Persisted(root_dirs, title, volumes', chapters', settings)
          /\ last' = Call("reorder_chapters_in_volume", CanSaveMetadata(root_dirs), None)
          /\ UNCHANGED <<title, settings, root_dirs, chapter_dirs, next_uuid>>

\* volume.chapter_ids.remove(pos) in the volume whose id is the source
RemoveFromSource(vols, source, cid) ==
  [i \in DOMAIN vols |->
     IF i = VolumePosition(vols, source) /\ cid \in Range(vols[i].chapter_ids)
     THEN [vols[i] EXCEPT !.chapter_ids = RemoveAt(@, Position(@, cid))]
     ELSE vols[i]]

\* an insertion that ignores target_position and puts the id first
InsertIntoTargetAtFront(vols, target, position, cid) ==
  [i \in DOMAIN vols |->
     IF i = VolumePosition(vols, target)
     THEN [vols[i] EXCEPT !.chapter_ids = InsertAt(@, 0, cid)]
     ELSE vols[i]]

\* volume.chapter_ids.insert(target_position.min(len), chapter_id)
InsertIntoTarget(vols, target, position, cid) ==
  [i \in DOMAIN vols |->
     IF i = VolumePosition(vols, target)
     THEN [vols[i] EXCEPT !.chapter_ids = InsertAt(@, Min2(position, Len(@)), cid)]
     ELSE vols[i]]

\* a move that does not look the chapter up first
MoveChapterToVolumeUnchecked(cid, target, position) ==
  LET source == IF cid \in DOMAIN chapters THEN chapters[cid].volume_id ELSE target
  IN /\ \A i \in DOMAIN volumes :
          volumes[i].id = target =>
            Len(RemoveFromSource(volumes, source, cid)[i].chapter_ids) < MaxListLen
     /\ volumes' = InsertIntoTarget(RemoveFromSource(volumes, source, cid),
                                    target, position, cid)
     /\ chapters' = IF cid \in DOMAIN chapters
                    THEN [chapters EXCEPT ![cid].volume_id = target] ELSE chapters
     /\ novel_files' = Persisted(root_dirs, title, volumes', chapters', settings)
     /\ last' = Call("move_chapter_to_volume", CanSaveMetadata(root_dirs), None)
     /\ UNCHANGED <<title, settings, root_dirs, chapter_dirs, next_uuid>>

MoveChapterToVolume(cid, target, position) ==
  IF cid \notin DOMAIN chapters
  THEN /\ last' = Call("move_chapter_to_volume", FALSE, None)
       /\ UNCHANGED <<title, volumes, chapters, settings, root_dirs, novel_files,
                      chapter_dirs, next_uuid>>
  ELSE /\ \A i \in DOMAIN volumes :
            volumes[i].id = target =>
              Len(RemoveFromSource(volumes, chapters[cid].volume_id, cid)[i].chapter_ids) < MaxListLen
       /\ volumes' = InsertIntoTarget(RemoveFromSource(volumes, chapters[cid].volume_id, cid),
                                      target, position, cid)
       /\ chapters' = [chapters EXCEPT ![cid].volume_id = target]
       /\ novel_files' = Persisted(root_dirs, title, volumes', chapters', settings)
       /\ last' = Call("move_chapter_to_volume", CanSaveMetadata(root_dirs), None)
       /\ UNCHANGED <<title, settings, root_dirs, chapter_dirs, next_uuid>>

\* -------------------------------------------------------------- versioning
\* a snapshot condition that forgets the is_empty test
SnapshotNeededIgnoringEmpty(ch, new_content) == ch.content # new_content

\* !chapter.content.is_empty() && chapter.content != new_content
SnapshotNeeded(ch, new_content) == ch.content # <<>> /\ ch.content # new_content

\* save_version: create_dir_all(history) and write v<current_version>.json
SaveVersion(d, ch, content, summary) ==
  [d EXCEPT !.history_dir = TRUE,
            !.history = MapInsert(@, VersionFileName(ch.current_version),
                                  ChapterVersion(ch.current_version, content, ch.word_count,
                                                 IF IsSome(summary) THEN Unwrap(summary)
                                                 ELSE AutoSaveSummary))]

\* an update that leaves current_version as it was
UpdatedChapterVersionKept(ch, new_content) ==
  [ch EXCEPT !.content = new_content,
             !.word_count = WordCount(new_content)]

\* an update that leaves the cached word_count as it was
UpdatedChapterCountKept(ch, new_content) ==
  [ch EXCEPT !.content = new_content,
             !.current_version = @ + 1]

\* the in-memory chapter after update_chapter_content
UpdatedChapter(ch, new_content) ==
  [ch EXCEPT !.content = new_content,
             !.word_count = WordCount(new_content),
             !.current_version = @ + 1]

\* an update that also ends in save_metadata, as the structural operations do
UpdateContentEffectSavingRoot(op, id, new_content, summary) ==
  LET ch == chapters[id]
      snap == SnapshotNeeded(ch, new_content)
      dirs1 == IF snap
               THEN [CreateChapterDir(chapter_dirs, ch.dir_path) EXCEPT
                       ![ch.dir_path] = SaveVersion(@, ch, ch.content, summary)]
               ELSE chapter_dirs
      wrote == ch.dir_path \in DOMAIN dirs1
      ch1 == UpdatedChapter(ch, new_content)
  IN /\ chapters' = [chapters EXCEPT ![id] = ch1]
     /\ chapter_dirs' = IF wrote
                        THEN [dirs1 EXCEPT ![ch.dir_path] =
                                [SaveChapterMetadata(@, ch1) EXCEPT !.content = Some(new_content)]]
                        ELSE dirs1
     /\ root_dirs' = IF snap THEN root_dirs \cup {"chapters"} ELSE root_dirs
     /\ last' = Call(op, wrote, None)
     /\ novel_files' = Persisted(root_dirs', title, volumes, chapters', settings)
     /\ UNCHANGED <<title, volumes, settings, next_uuid>>

\* update_chapter_content(id, new_content, change_summary) for a chapter in
\* the index.  A snapshot is written first when needed (create_dir_all makes
\* the chapter directory if it is missing); content.md and metadata.json are
\* written after the in-memory update, and fail if the directory is missing.
UpdateContentEffect(op, id, new_content, summary) ==
  LET ch == chapters[id]
      snap == SnapshotNeeded(ch, new_content)
      dirs1 == IF snap
               THEN [CreateChapterDir(chapter_dirs, ch.dir_path) EXCEPT
                       ![ch.dir_path] = SaveVersion(@, ch, ch.content, summary)]
               ELSE chapter_dirs
      wrote == ch.dir_path \in DOMAIN dirs1
      ch1 == UpdatedChapter(ch, new_content)
  IN /\ chapters' = [chapters EXCEPT ![id] = ch1]
     /\ chapter_dirs' = IF wrote
                        THEN [dirs1 EXCEPT ![ch.dir_path] =
                                [SaveChapterMetadata(@, ch1) EXCEPT !.content = Some(new_content)]]
                        ELSE dirs1
     /\ root_dirs' = IF snap THEN root_dirs \cup {"chapters"} ELSE root_dirs
     /\ last' = Call(op, wrote, None)
     /\ UNCHANGED <<title, volumes, settings, novel_files, next_uuid>>

UpdateChapterContent(id, new_content, summary) ==
  IF id \notin DOMAIN chapters
  THEN /\ last' = Call("update_chapter_content", TRUE, None)
       /\ UNCHANGED <<title, volumes, chapters, settings, root_dirs, novel_files,
                      chapter_dirs, next_uuid>>
  ELSE /\ chapters[id].current_version < MaxVersion
       /\ UpdateContentEffect("update_chapter_content", id, new_content, summary)

\* format!("restored to version {}", version)
RestoreSummary(version) == <<"restore", version>>

\* the snapshot file restore_version reads, as an option
VersionFile(id, version) ==
  IF /\ id \in DOMAIN chapters
     /\ chapters[id].dir_path \in DOMAIN chapter_dirs
     /\ VersionFileName(version) \in DOMAIN chapter_dirs[chapters[id].dir_path].history
  THEN Some(chapter_dirs[chapters[id].dir_path].history[VersionFileName(version)])
  ELSE None

\* a restore_version that does not test version_file.exists() and restores
\* the empty text when the snapshot is missing
RestoreVersionUnchecked(id, version) ==
  IF id \notin DOMAIN chapters
  THEN /\ last' = Call("restore_version", FALSE, None)
       /\ UNCHANGED <<title, volumes, chapters, settings, root_dirs, novel_files,
                      chapter_dirs, next_uuid>>
  ELSE /\ chapters[id].current_version < MaxVersion
       /\ UpdateContentEffect("restore_version", id,
                              IF IsSome(VersionFile(id, version))
                              THEN Unwrap(VersionFile(id, version)).content ELSE <<>>,
                              Some(RestoreSummary(version)))

RestoreVersion(id, version) ==
  IF ~IsSome(VersionFile(id, version))
  THEN /\ last' = Call("restore_version", FALSE, None)
       /\ UNCHANGED <<title, volumes, chapters, settings, root_dirs, novel_files,
                      chapter_dirs, next_uuid>>
  ELSE /\ chapters[id].current_version < MaxVersion
       /\ UpdateContentEffect("restore_version", id,
                              Unwrap(VersionFile(id, version)).content,
                              Some(RestoreSummary(version)))

\* a sort by version number without the Reverse
RECURSIVE SortAscending(_)
SortAscending(S) ==
  IF S = {} THEN <<>>
  ELSE LET low == CHOOSE v \in S : \A w \in S : v.version <= w.version
       IN <<low>> \o SortAscending(S \ {low})

\* versions.sort_by_key(|v| Reverse(v.version)) over a set of snapshots
RECURSIVE SortDescending(_)
SortDescending(S) ==
  IF S = {} THEN <<>>
  ELSE LET top == CHOOSE v \in S : \A w \in S : w.version <= v.version
       IN <<top>> \o SortDescending(S \ {top})

\* get_version_history for a chapter in the index: every *.json file of the
\* history directory, deserialized, most recent first
VersionHistory(id) ==
  LET name == chapters[id].dir_path
      d == IF name \in DOMAIN chapter_dirs THEN chapter_dirs[name] ELSE EmptyDir
  IN IF ~d.history_dir THEN <<>>
     ELSE SortDescending({d.history[f] : f \in {g \in DOMAIN d.history : g[Len(g)] = ".json"}})

GetVersionHistory(id) ==
  /\ last' = IF id \in DOMAIN chapters
             THEN Call("get_version_history", TRUE, Some(VersionHistory(id)))
             ELSE Call("get_version_history", FALSE, None)
  /\ UNCHANGED <<title, volumes, chapters, settings, root_dirs, novel_files,
                 chapter_dirs, next_uuid>>

\* ---------------------------------------------------------------- queries
\* the sort key of get_all_chapters_in_order: the order of the volume the
\* chapter names (0 when no volume has that id), then the chapter's order
SortKey(chs, vols, id) ==
  <<IF VolumePosition(vols, chs[id].volume_id) = 0 THEN 0
    ELSE vols[VolumePosition(vols, chs[id].volume_id)].order,
    chs[id].order>>

\* (a, b) <= (c, d) on tuples
KeyLeq(k1, k2) == k1[1] < k2[1] \/ (k1[1] = k2[1] /\ k1[2] <= k2[2])

\* every listing of the set S without repeats
Listings(S) ==
  {q \in SeqsUpTo(S, Cardinality(S)) : Len(q) = Cardinality(S) /\ Range(q) = S}

\* get_all_chapters_in_order: self.chapters.values() sorted by key.  The sort
\* is stable and HashMap iterates in an unspecified order, so chapters with
\* equal keys can come out either way: the set of the listings (of ids) that
\* the call can return
AllChaptersInOrder(chs, vols) ==
  {q \in Listings(DOMAIN chs) :
     \A i \in 1 .. (Len(q) - 1) :
       KeyLeq(SortKey(chs, vols, q[i]), SortKey(chs, vols, q[i + 1]))}

GetAllChaptersInOrder ==
  /\ \E q \in AllChaptersInOrder(chapters, volumes) :
       last' = Call("get_all_chapters_in_order", TRUE, Some(q))
  /\ UNCHANGED <<title, volumes, chapters, settings, root_dirs, novel_files,
                 chapter_dirs, next_uuid>>

\* get_chapters_for_volume: the chapters of the index that the volume lists,
\* in list order; nothing for an unknown volume
ChaptersForVolume(chs, vols, vid) ==
  IF VolumePosition(vols, vid) = 0 THEN <<>>
  ELSE SelectSeq(vols[VolumePosition(vols, vid)].chapter_ids, LAMBDA id : id \in DOMAIN chs)

GetChaptersForVolume(vid) ==
  /\ last' = Call("get_chapters_for_volume", TRUE, Some(ChaptersForVolume(chapters, volumes, vid)))
  /\ UNCHANGED <<title, volumes, chapters, settings, root_dirs, novel_files,
                 chapter_dirs, next_uuid>>

\* --------------------------------------------------------- chapters panel
\* NovelChaptersPanel holds its NovelProject in project: Option<Arc<..>>; the
\* project it holds is the one of the variables title, volumes, chapters,
\* settings, and project says whether the option is Some.  Every handler is
\* one step: the panel calls the project through futures::executor::block_on.

\* the titles the panel gives to what it creates: fixed strings in the code,
\* the Chinese for "new chapter" and "new volume", written here in ASCII
PanelChapterTitle == "New Chapter"
PanelVolumeTitle == "New Volume"

\* the texts complete_rename can be given, and new_title.trim().is_empty()
\* on them
RenameInputs == {"", " ", "T2", PanelVolumeTitle}
TrimIsEmpty(t) == t \in {"", " "}

\* VolumeId::default() is VolumeId(Uuid::new_v4()): an id made for the call,
\* which no volume has; written as the id that is never issued to a volume
DefaultVolumeId == 0

\* the longest expanded_volumes followed: load_project pushes without looking
\* for duplicates, so the Vec grows with every load
MaxExpanded == 4

SelectedChapter(id) == Some([kind |-> "Chapter", id |-> id])
SelectedVolume(id) == Some([kind |-> "Volume", id |-> id])

EditingItem(item_id, original_title, is_volume) ==
  [item_id |-> item_id, original_title |-> original_title, is_volume |-> is_volume]

\* a handler that returns without calling the project
PanelReturn(op) ==
  /\ last' = Call(op, FALSE, None)
  /\ UNCHANGED <<mem, disk, next_uuid>>

\* toggle_volume_expanded
ToggleVolumeExpanded(expanded, vid) ==
  IF vid \in Range(expanded) THEN SelectSeq(expanded, LAMBDA id : id # vid)
  ELSE Append(expanded, vid)

\* has_content of render: the tree is rendered, else the empty state
HasContent == project /\ \E i \in DOMAIN volumes : volumes[i].chapter_ids # <<>>

\* load_project, called from NovelChaptersPanel::load and open to any other
\* caller: the project is loaded from disk and, on Ok, replaces the one held,
\* the id of every volume is pushed onto expanded_volumes, whether it is
\* there already or not, and the first chapter of chapters.values(),
\* whichever the HashMap yields first, is selected; on Err nothing changes.
\* The list is let grow up to MaxExpanded ids.
PanelLoadProject ==
  /\ Load
  /\ project' = (project \/ last'.ok)
  /\ expanded_volumes' = IF last'.ok
                         THEN expanded_volumes \o [i \in DOMAIN volumes' |-> volumes'[i].id]
                         ELSE expanded_volumes
  /\ Len(expanded_volumes') <= MaxExpanded
  /\ IF last'.ok /\ DOMAIN chapters' # {}
     THEN \E c \in DOMAIN chapters' : selected_item' = SelectedChapter(c)
     ELSE UNCHANGED selected_item
  /\ UNCHANGED editing_item

\* create_chapter: the target is the first volume, or a random id (one that no
\* volume has) when there is none
PanelCreateChapter ==
  IF ~project
  THEN PanelReturn("panel_create_chapter") /\ UNCHANGED chapters_panel
  ELSE LET default_volume_id == IF Len(volumes) > 0 THEN volumes[1].id ELSE DefaultVolumeId
       IN /\ CreateChapter(PanelChapterTitle, Some(default_volume_id))
          /\ selected_item' = IF last'.ok THEN SelectedChapter(Unwrap(last'.ret))
                              ELSE selected_item
          /\ expanded_volumes' = IF last'.ok /\ default_volume_id \notin Range(expanded_volumes)
                                 THEN Append(expanded_volumes, default_volume_id)
                                 ELSE expanded_volumes
          /\ UNCHANGED <<project, editing_item>>

PanelCreateVolume ==
  IF ~project
  THEN PanelReturn("panel_create_volume") /\ UNCHANGED chapters_panel
  ELSE /\ CreateVolume(PanelVolumeTitle)
       /\ selected_item' = IF last'.ok THEN SelectedVolume(Unwrap(last'.ret)) ELSE selected_item
       /\ expanded_volumes' = IF last'.ok THEN Append(expanded_volumes, Unwrap(last'.ret))
                              ELSE expanded_volumes
       /\ UNCHANGED <<project, editing_item>>

\* delete_selected
DeleteSelected ==
  IF ~IsSome(selected_item) \/ ~project
  THEN PanelReturn("delete_selected") /\ UNCHANGED chapters_panel
  ELSE /\ IF Unwrap(selected_item).kind = "Chapter"
          THEN DeleteChapter(Unwrap(selected_item).id)
          ELSE DeleteVolume(Unwrap(selected_item).id)
       /\ selected_item' = IF last'.ok THEN None ELSE selected_item
       /\ UNCHANGED <<project, expanded_volumes, editing_item>>

\* on_click of a volume header of the rendered tree
ClickVolume(vid) ==
  /\ HasContent
  /\ VolumePosition(volumes, vid) # 0
  /\ selected_item' = SelectedVolume(vid)
  /\ expanded_volumes' = ToggleVolumeExpanded(expanded_volumes, vid)
  /\ last' = Call("click_volume", TRUE, None)
  /\ UNCHANGED <<mem, disk, next_uuid, project, editing_item>>

\* on_click of the expand button in a volume header: the volume is toggled,
\* the selection stays
ClickExpand(vid) ==
  /\ HasContent
  /\ VolumePosition(volumes, vid) # 0
  /\ expanded_volumes' = ToggleVolumeExpanded(expanded_volumes, vid)
  /\ last' = Call("click_expand", TRUE, None)
  /\ UNCHANGED <<mem, disk, next_uuid, project, selected_item, editing_item>>

\* collapse_all, the toolbar button
CollapseAll ==
  /\ expanded_volumes' = <<>>
  /\ last' = Call("collapse_all", TRUE, None)
  /\ UNCHANGED <<mem, disk, next_uuid, project, selected_item, editing_item>>

\* the loop of expand_all: each id is pushed unless the list contains it
RECURSIVE ExpandedWith(_, _)
ExpandedWith(expanded, ids) ==
  IF ids = <<>> THEN expanded
  ELSE ExpandedWith(IF Head(ids) \in Range(expanded) THEN expanded
                    ELSE Append(expanded, Head(ids)),
                    Tail(ids))

\* expand_all, the toolbar button
ExpandAll ==
  /\ expanded_volumes' = IF project
                         THEN ExpandedWith(expanded_volumes,
                                           [i \in DOMAIN volumes |-> volumes[i].id])
                         ELSE expanded_volumes
  /\ last' = Call("expand_all", TRUE, None)
  /\ UNCHANGED <<mem, disk, next_uuid, project, selected_item, editing_item>>

\* on_click of a chapter item, rendered under an expanded volume that lists it
ClickChapter(id) ==
  /\ HasContent
  /\ \E i \in DOMAIN volumes :
       /\ volumes[i].id \in Range(expanded_volumes)
       /\ id \in Range(ChaptersForVolume(chapters, volumes, volumes[i].id))
  /\ selected_item' = SelectedChapter(id)
  /\ last' = Call("click_chapter", TRUE, None)
  /\ UNCHANGED <<mem, disk, next_uuid, project, expanded_volumes, editing_item>>

\* volume.chapter_ids.first().map(|cid| cid.0).unwrap_or(0)
FirstChapterIdOrZero(vol) == IF vol.chapter_ids # <<>> THEN vol.chapter_ids[1] ELSE 0

\* what start_rename puts into editing_item, None when it returns early
StartRenameItem ==
  IF ~IsSome(selected_item) \/ ~project THEN None
  ELSE LET sel == Unwrap(selected_item)
       IN IF sel.kind = "Chapter"
          THEN IF sel.id \in DOMAIN chapters
               THEN Some(EditingItem(sel.id, chapters[sel.id].title, FALSE))
               ELSE None
          ELSE IF VolumePosition(volumes, sel.id) # 0
               THEN LET volume == volumes[VolumePosition(volumes, sel.id)]
                    IN Some(EditingItem(FirstChapterIdOrZero(volume), volume.title, TRUE))
               ELSE None

StartRename ==
  /\ editing_item' = IF IsSome(StartRenameItem) THEN StartRenameItem ELSE editing_item
  /\ last' = Call("start_rename", IsSome(StartRenameItem), None)
  /\ UNCHANGED <<mem, disk, next_uuid, project, expanded_volumes, selected_item>>

\* proj.volumes.iter().find(|v| v.chapter_ids.first() == Some(item_id))
\*   .map(|v| v.id).unwrap_or_default()
RenamedVolumeId(vols, item_id) ==
  LET hits == {i \in DOMAIN vols : vols[i].chapter_ids # <<>> /\ vols[i].chapter_ids[1] = item_id}
  IN IF hits = {} THEN DefaultVolumeId
     ELSE vols[CHOOSE i \in hits : \A j \in hits : i <= j].id

\* complete_rename(new_title); the Result of the rename is dropped
CompleteRename(new_title) ==
  IF ~IsSome(editing_item)
  THEN PanelReturn("complete_rename") /\ UNCHANGED chapters_panel
  ELSE LET editing == Unwrap(editing_item)
       IN /\ editing_item' = None
          /\ UNCHANGED <<project, expanded_volumes, selected_item>>
          /\ IF TrimIsEmpty(new_title) \/ new_title = editing.original_title \/ ~project
             THEN PanelReturn("complete_rename")
             ELSE IF editing.is_volume
                  THEN RenameVolume(RenamedVolumeId(volumes, editing.item_id), new_title)
                  ELSE RenameChapter(editing.item_id, new_title)

\* ---------------------------------------------------------------- AI panel
\* NovelAIPanel: the chat state and the future that generate_ai_response
\* spawns on the foreground executor.  A handler, and each stretch of the
\* future between two awaits, is one step.  current_chapter and novel_context
\* only feed the system prompt of the request and are left out.
MaxMessages == 3
MaxStreamItems == 2

QuickActionInputs == {"GenerateChapter", "ContinueWriting"}
StreamTexts == {<<"x">>, <<"y">>}
CallErrors == {"unavailable"}

Message(role, content) == [role |-> role, content |-> content]

\* QuickAction::label, and the prompt execute_quick_action picks for the action
QuickLabel(action) == <<"label", action>>
QuickPrompt(action) == <<"prompt", action>>

\* format!("[quick: {}]\n{}", action.label(), prompt)
QuickMessage(action) == <<"[">> \o QuickLabel(action) \o <<"]">> \o QuickPrompt(action)

\* the fixed text for no configured model, and format!("call failed: {}...", e)
NoModelText == <<"no-model">>
CallFailedText(e) == <<"call-failed", e>>

\* str::trim
RECURSIVE TrimStart(_)
TrimStart(s) ==
  IF s # <<>> /\ Head(s) \in Whitespace THEN TrimStart(Tail(s)) ELSE s

RECURSIVE TrimEnd(_)
TrimEnd(s) ==
  IF s # <<>> /\ s[Len(s)] \in Whitespace THEN TrimEnd(SubSeq(s, 1, Len(s) - 1)) ELSE s

Trim(s) == TrimEnd(TrimStart(s))

\* the closure both this.update calls run on the message list: the last
\* message is overwritten if it is an Assistant message, and an Assistant
\* message is pushed only onto an empty list
UpdateLastMessage(msgs, text) ==
  IF msgs # <<>>
  THEN IF msgs[Len(msgs)].role = "Assistant"
       THEN [msgs EXCEPT ![Len(msgs)].content = text]
       ELSE msgs
  ELSE <<Message("Assistant", text)>>

\* generate_ai_response: cx.spawn of the future; the Task replaces the one in
\* pending_request, which is dropped.  asked_at remembers where the user
\* message of the request is in the list
SpawnRequest(prompt, msgs) ==
  /\ request' = [pc |-> "spawned", prompt |-> prompt, full_response |-> <<>>, items |-> 0,
                 response |-> None, asked_at |-> Len(msgs)]
  /\ pending_request' = Some(IF IsSome(pending_request) THEN Unwrap(pending_request) + 1 ELSE 1)

\* a handler of the AI panel that returns early
AiReturn(op) ==
  /\ last' = Call(op, FALSE, None)
  /\ UNCHANGED ai_panel

SendMessage ==
  LET text == Trim(input_text)
  IN IF text = <<>> \/ is_generating
     THEN AiReturn("send_message")
     ELSE /\ Len(messages) < MaxMessages
          /\ messages' = Append(messages, Message("User", text))
          /\ input_text' = <<>>
          /\ is_generating' = TRUE
          /\ SpawnRequest(text, messages')
          /\ last' = Call("send_message", TRUE, None)

\* an execute_quick_action without the is_generating test
ExecuteQuickActionUnguarded(action) ==
  /\ Len(messages) < MaxMessages
  /\ messages' = Append(messages, Message("User", QuickMessage(action)))
  /\ is_generating' = TRUE
  /\ SpawnRequest(QuickPrompt(action), messages')
  /\ last' = Call("execute_quick_action", TRUE, None)
  /\ UNCHANGED input_text

ExecuteQuickAction(action) ==
  IF is_generating
  THEN AiReturn("execute_quick_action")
  ELSE /\ Len(messages) < MaxMessages
       /\ messages' = Append(messages, Message("User", QuickMessage(action)))
       /\ is_generating' = TRUE
       /\ SpawnRequest(QuickPrompt(action), messages')
       /\ last' = Call("execute_quick_action", TRUE, None)
       /\ UNCHANGED input_text

\* the last this.update of the future: the answer goes through the closure,
\* is_generating is reset, and the future returns Ok(())
FinalUpdate(response) ==
  /\ messages' = UpdateLastMessage(messages, response)
  /\ is_generating' = FALSE
  /\ request' = [request EXCEPT !.pc = "done", !.response = Some(response)]
  /\ UNCHANGED <<input_text, pending_request>>

\* first poll: LanguageModelRegistry::default_model() is None or Some; with a
\* model the future awaits stream_completion_text
RequestStart(configured) ==
  /\ request.pc = "spawned"
  /\ IF configured
     THEN /\ request' = [request EXCEPT !.pc = "connecting"]
          /\ UNCHANGED <<messages, input_text, is_generating, pending_request>>
     ELSE FinalUpdate(NoModelText)

\* stream.await returns Ok(stream)
RequestConnected ==
  /\ request.pc = "connecting"
  /\ request' = [request EXCEPT !.pc = "streaming"]
  /\ UNCHANGED <<messages, input_text, is_generating, pending_request>>

\* stream.await returns Err(e)
RequestRefused(e) ==
  /\ request.pc = "connecting"
  /\ FinalUpdate(CallFailedText(e))

\* messages.stream.next() yields Some(Ok(text))
StreamItem(text) ==
  /\ request.pc = "streaming"
  /\ request.items < MaxStreamItems
  /\ request' = [request EXCEPT !.full_response = @ \o text, !.items = @ + 1]
  /\ messages' = UpdateLastMessage(messages, request'.full_response)
  /\ UNCHANGED <<input_text, is_generating, pending_request>>

\* messages.stream.next() yields Some(Err(e)): message? returns the error
\* from the future, which ends without the last update
StreamError ==
  /\ request.pc = "streaming"
  /\ request' = [request EXCEPT !.pc = "failed"]
  /\ UNCHANGED <<messages, input_text, is_generating, pending_request>>

\* messages.stream.next() yields None
StreamEnd ==
  /\ request.pc = "streaming"
  /\ FinalUpdate(request.full_response)

\* the steps of the spawned future
RequestNext ==
  \/ \E configured \in BOOLEAN : RequestStart(configured)
  \/ RequestConnected
  \/ \E e \in CallErrors : RequestRefused(e)
  \/ \E text \in StreamTexts : StreamItem(text)
  \/ StreamError
  \/ StreamEnd

\* ------------------------------------------------------- history variable
\* written[id] exists for a chapter that this NovelProject instance created
\* (not one it loaded): clean says that the chapter directory held no history
\* when create_chapter ran, log lists the contents passed to
\* update_chapter_content for it since, oldest first.
HasHistoryDir(name) == name \in DOMAIN chapter_dirs /\ chapter_dirs[name].history_dir

LogWrite(id, content) ==
  IF id \in DOMAIN written THEN [written EXCEPT ![id].log = Append(@, content)] ELSE written

LogLive == [id \in (DOMAIN written) \cap (DOMAIN chapters') |-> written[id]]

TrackedLoad ==
  /\ Load
  /\ written' = IF last'.ok THEN EmptyMap ELSE written
  /\ UNCHANGED ui

TrackedCreateChapter(t, vopt) ==
  /\ CreateChapter(t, vopt)
  /\ written' = IF IsSome(last'.ret)
                THEN MapInsert(written, Unwrap(last'.ret),
                               [clean |-> ~HasHistoryDir(ChapterDirName(Unwrap(last'.ret))),
                                log |-> <<>>])
                ELSE written
  /\ UNCHANGED ui

TrackedDeleteChapter(c) == DeleteChapter(c) /\ written' = LogLive /\ UNCHANGED ui

TrackedDeleteVolume(v) == DeleteVolume(v) /\ written' = LogLive /\ UNCHANGED ui

TrackedUpdateChapterContent(c, x, sm) ==
  /\ UpdateChapterContent(c, x, sm)
  /\ written' = IF c \in DOMAIN chapters THEN LogWrite(c, x) ELSE written
  /\ UNCHANGED ui

TrackedRestoreVersion(c, n) ==
  /\ RestoreVersion(c, n)
  /\ written' = IF IsSome(VersionFile(c, n))
                THEN LogWrite(c, Unwrap(VersionFile(c, n)).content)
                ELSE written
  /\ UNCHANGED ui

\* ------------------------------------------------------------------- Next
\* Uuid::new_v4() never repeats: the k-th identifier it returns is k.  A caller
\* can name an identifier that was returned before, or one (0) that never is.
VolumeIdInputs == 0 .. (next_uuid - 1)
OrderInputs == SeqsUpTo(ChapterIdInputs, MaxListLen)
VolumeOptions == {None} \cup {Some(v) : v \in VolumeIdInputs}
SummaryInputs == {None}

Next ==
  \/ \E t \in ProjectTitles : New(t) /\ written' = EmptyMap /\ UNCHANGED ui
  \/ Initialize /\ UNCHANGED <<written, ui>>
  \/ CallSaveMetadata /\ UNCHANGED <<written, ui>>
  \/ TrackedLoad
  \/ \E t \in Titles : CreateVolume(t) /\ UNCHANGED <<written, ui>>
  \/ \E v \in VolumeIdInputs : TrackedDeleteVolume(v)
  \/ \E v \in VolumeIdInputs, t \in Titles : RenameVolume(v, t) /\ UNCHANGED <<written, ui>>
  \/ \E t \in Titles, vopt \in VolumeOptions : TrackedCreateChapter(t, vopt)
  \/ \E c \in ChapterIdInputs : TrackedDeleteChapter(c)
  \/ \E c \in ChapterIdInputs, t \in Titles : RenameChapter(c, t) /\ UNCHANGED <<written, ui>>
  \/ \E c \in ChapterIdInputs, st \in StatusInputs :
       UpdateChapterStatus(c, st) /\ UNCHANGED <<written, ui>>
  \/ \E v \in VolumeIdInputs, o \in OrderInputs :
       ReorderChaptersInVolume(v, o) /\ UNCHANGED <<written, ui>>
  \/ \E c \in ChapterIdInputs, v \in VolumeIdInputs, p \in PositionInputs :
       MoveChapterToVolume(c, v, p) /\ UNCHANGED <<written, ui>>
  \/ \E c \in ChapterIdInputs, x \in Contents, sm \in SummaryInputs :
       TrackedUpdateChapterContent(c, x, sm)
  \/ \E c \in ChapterIdInputs, n \in VersionInputs : TrackedRestoreVersion(c, n)
  \/ \E c \in ChapterIdInputs : GetVersionHistory(c) /\ UNCHANGED <<written, ui>>
  \/ GetAllChaptersInOrder /\ UNCHANGED <<written, ui>>
  \/ \E v \in VolumeIdInputs : GetChaptersForVolume(v) /\ UNCHANGED <<written, ui>>
  \/ PanelLoadProject /\ UNCHANGED <<written, ai_panel>>
  \/ PanelCreateChapter /\ UNCHANGED <<written, ai_panel>>
  \/ PanelCreateVolume /\ UNCHANGED <<written, ai_panel>>
  \/ \E v \in VolumeIdInputs : ClickVolume(v) /\ UNCHANGED <<written, ai_panel>>
  \/ \E v \in VolumeIdInputs : ClickExpand(v) /\ UNCHANGED <<written, ai_panel>>
  \/ \E c \in ChapterIds : ClickChapter(c) /\ UNCHANGED <<written, ai_panel>>
  \/ CollapseAll /\ UNCHANGED <<written, ai_panel>>
  \/ ExpandAll /\ UNCHANGED <<written, ai_panel>>
  \/ SendMessage /\ UNCHANGED <<mem, disk, next_uuid, written, chapters_panel>>
  \/ \E action \in QuickActionInputs :
       ExecuteQuickAction(action) /\ UNCHANGED <<mem, disk, next_uuid, written, chapters_panel>>
  \/ RequestNext /\ UNCHANGED <<mem, disk, next_uuid, last, written, chapters_panel>>

Spec == Init /\ [][Next]_vars


\* ------------------------------------------------- focused specifications
\* The state after NovelProject::new(root, title) and initialize()
InitReady ==
  /\ title \in ProjectTitles
  /\ volumes = <<Volume(1, DefaultVolumeTitle, 0, <<>>)>>
  /\ chapters = EmptyMap
  /\ settings = DefaultSettings
  /\ root_dirs = {".novel", "chapters", "drafts"}
  /\ novel_files = SaveMetadata(EmptyMap, title, volumes, chapters, settings)
  /\ chapter_dirs = EmptyMap
  /\ next_uuid = 2
  /\ last = Call("initialize", TRUE, None)
  /\ written = EmptyMap
  /\ PanelsNew

\* The volume/chapter structure: every operation that creates, deletes or
\* rearranges volumes and chapters, with load, on an initialized project.
StructureTitles == {"T1"}
StructureOrders == SeqsUpTo(ChapterIds, MaxListLen)

StructureNext ==
  \/ Load /\ UNCHANGED <<written, ui>>
  \/ \E t \in StructureTitles : CreateVolume(t) /\ UNCHANGED <<written, ui>>
  \/ \E v \in VolumeIdInputs : DeleteVolume(v) /\ UNCHANGED <<written, ui>>
  \/ \E t \in StructureTitles, vopt \in VolumeOptions :
       CreateChapter(t, vopt) /\ UNCHANGED <<written, ui>>
  \/ \E c \in ChapterIds : DeleteChapter(c) /\ UNCHANGED <<written, ui>>
  \/ \E v \in VolumeIdInputs, o \in StructureOrders :
       ReorderChaptersInVolume(v, o) /\ UNCHANGED <<written, ui>>
  \/ \E c \in ChapterIds, v \in VolumeIdInputs, p \in PositionInputs :
       MoveChapterToVolume(c, v, p) /\ UNCHANGED <<written, ui>>

SpecStructure == InitReady /\ [][StructureNext]_vars

\* One volume's chapter list: create, delete and reorder chapters only.
ChapterListNext ==
  \/ \E t \in StructureTitles, vopt \in VolumeOptions :
       CreateChapter(t, vopt) /\ UNCHANGED <<written, ui>>
  \/ \E c \in ChapterIds : DeleteChapter(c) /\ UNCHANGED <<written, ui>>
  \/ \E v \in VolumeIdInputs, o \in StructureOrders :
       ReorderChaptersInVolume(v, o) /\ UNCHANGED <<written, ui>>

SpecChapterList == InitReady /\ [][ChapterListNext]_vars

\* Versioning: content updates and restores on chapters of the default
\* volume, with creation and deletion, on an initialized project.  The
\* history variable follows the chapters this instance created.
VersioningNext ==
  \/ \E t \in StructureTitles : TrackedCreateChapter(t, None)
  \/ \E c \in ChapterIds : TrackedDeleteChapter(c)
  \/ \E c \in ChapterIds, x \in Contents, sm \in SummaryInputs :
       TrackedUpdateChapterContent(c, x, sm)
  \/ \E c \in ChapterIds, n \in VersionInputs : TrackedRestoreVersion(c, n)

SpecVersioning == InitReady /\ [][VersioningNext]_vars

\* History across reloads: chapters are created, the first one is edited and
\* restored, and the project is loaded again from disk.
EditedChapterIds == {0}

HistoryNext ==
  \/ TrackedLoad
  \/ \E t \in StructureTitles : TrackedCreateChapter(t, None)
  \/ \E c \in EditedChapterIds, x \in Contents, sm \in SummaryInputs :
       TrackedUpdateChapterContent(c, x, sm)
  \/ \E c \in EditedChapterIds, n \in VersionInputs : TrackedRestoreVersion(c, n)

SpecHistory == InitReady /\ [][HistoryNext]_vars

\* Round trip: volumes and chapters are created and deleted, content and
\* status are edited, and the project is loaded again from disk.
RoundTripContents == {<<"a">>}
RoundTripStatuses == {"Draft"}

RoundTripNext ==
  \/ Load /\ UNCHANGED <<written, ui>>
  \/ \E t \in StructureTitles : CreateVolume(t) /\ UNCHANGED <<written, ui>>
  \/ \E v \in VolumeIdInputs : DeleteVolume(v) /\ UNCHANGED <<written, ui>>
  \/ \E t \in StructureTitles, vopt \in VolumeOptions :
       CreateChapter(t, vopt) /\ UNCHANGED <<written, ui>>
  \/ \E c \in ChapterIds : DeleteChapter(c) /\ UNCHANGED <<written, ui>>
  \/ \E c \in ChapterIds, x \in RoundTripContents :
       UpdateChapterContent(c, x, None) /\ UNCHANGED <<written, ui>>
  \/ \E c \in ChapterIds, st \in RoundTripStatuses :
       UpdateChapterStatus(c, st) /\ UNCHANGED <<written, ui>>

SpecRoundTrip == InitReady /\ [][RoundTripNext]_vars

\* Arranging chapters: volumes and chapters are created, chapters are deleted,
\* reordered within a volume and moved between volumes; nothing is reloaded.
ArrangeNext ==
  \/ \E t \in StructureTitles : CreateVolume(t) /\ UNCHANGED <<written, ui>>
  \/ \E t \in StructureTitles, vopt \in VolumeOptions :
       CreateChapter(t, vopt) /\ UNCHANGED <<written, ui>>
  \/ \E c \in ChapterIds : DeleteChapter(c) /\ UNCHANGED <<written, ui>>
  \/ \E v \in VolumeIdInputs, o \in StructureOrders :
       ReorderChaptersInVolume(v, o) /\ UNCHANGED <<written, ui>>
  \/ \E c \in ChapterIds, v \in VolumeIdInputs, p \in PositionInputs :
       MoveChapterToVolume(c, v, p) /\ UNCHANGED <<written, ui>>

SpecArrange == InitReady /\ [][ArrangeNext]_vars

\* Moving chapters: volumes and chapters are created and chapters are moved;
\* no list is ever reordered and no chapter is ever deleted.
MoveNext ==
  \/ \E t \in StructureTitles : CreateVolume(t) /\ UNCHANGED <<written, ui>>
  \/ \E t \in StructureTitles, vopt \in VolumeOptions :
       CreateChapter(t, vopt) /\ UNCHANGED <<written, ui>>
  \/ \E c \in ChapterIds, v \in VolumeIdInputs, p \in PositionInputs :
       MoveChapterToVolume(c, v, p) /\ UNCHANGED <<written, ui>>

SpecMove == InitReady /\ [][MoveNext]_vars

\* Placing chapters: volumes and chapters are created and deleted, so a
\* chapter can be asked for in any volume that exists, existed or never did.
PlacementNext ==
  \/ \E t \in StructureTitles : CreateVolume(t) /\ UNCHANGED <<written, ui>>
  \/ \E v \in VolumeIdInputs : DeleteVolume(v) /\ UNCHANGED <<written, ui>>
  \/ \E t \in StructureTitles, vopt \in VolumeOptions :
       CreateChapter(t, vopt) /\ UNCHANGED <<written, ui>>
  \/ \E c \in ChapterIds : DeleteChapter(c) /\ UNCHANGED <<written, ui>>

SpecPlacement == InitReady /\ [][PlacementNext]_vars

\* Editing by id: volumes and chapters are created, renamed and deleted and
\* chapter content is written, under ids that exist and ids that do not.
RenameTitles == {"T2"}

EditNext ==
  \/ \E t \in StructureTitles : CreateVolume(t) /\ UNCHANGED <<written, ui>>
  \/ \E v \in VolumeIdInputs : DeleteVolume(v) /\ UNCHANGED <<written, ui>>
  \/ \E v \in VolumeIdInputs, t \in RenameTitles : RenameVolume(v, t) /\ UNCHANGED <<written, ui>>
  \/ \E t \in StructureTitles : CreateChapter(t, None) /\ UNCHANGED <<written, ui>>
  \/ \E c \in ChapterIds : DeleteChapter(c) /\ UNCHANGED <<written, ui>>
  \/ \E c \in ChapterIds, t \in RenameTitles : RenameChapter(c, t) /\ UNCHANGED <<written, ui>>
  \/ \E c \in ChapterIds, x \in RoundTripContents :
       UpdateChapterContent(c, x, None) /\ UNCHANGED <<written, ui>>

SpecEdit == InitReady /\ [][EditNext]_vars

\* Reading history: chapters of the default volume are created, written and
\* restored, and their version history is read back.
HistoryQueryNext ==
  \/ \E t \in StructureTitles : TrackedCreateChapter(t, None)
  \/ \E c \in EditedChapterIds, x \in Contents, sm \in SummaryInputs :
       TrackedUpdateChapterContent(c, x, sm)
  \/ \E c \in EditedChapterIds, n \in VersionInputs : TrackedRestoreVersion(c, n)
  \/ \E c \in ChapterIds : GetVersionHistory(c) /\ UNCHANGED <<written, ui>>

SpecHistoryQuery == InitReady /\ [][HistoryQueryNext]_vars

\* Lifecycle: from NovelProject::new on an empty root, the project is
\* initialized, filled, loaded, and constructed again over the same root.
LifecycleNext ==
  \/ \E t \in ProjectTitles : New(t) /\ written' = EmptyMap /\ UNCHANGED ui
  \/ Initialize /\ UNCHANGED <<written, ui>>
  \/ CallSaveMetadata /\ UNCHANGED <<written, ui>>
  \/ Load /\ UNCHANGED <<written, ui>>
  \/ \E t \in StructureTitles : CreateVolume(t) /\ UNCHANGED <<written, ui>>
  \/ \E t \in StructureTitles : CreateChapter(t, None) /\ UNCHANGED <<written, ui>>
  \/ \E c \in ChapterIds : DeleteChapter(c) /\ UNCHANGED <<written, ui>>

SpecLifecycle == Init /\ [][LifecycleNext]_vars

\* Failing writes: the project is used from NovelProject::new on, before and
\* after initialize, so save_metadata fails while root/.novel is missing.
FailureNext ==
  \/ Initialize /\ UNCHANGED <<written, ui>>
  \/ CallSaveMetadata /\ UNCHANGED <<written, ui>>
  \/ \E t \in StructureTitles : CreateVolume(t) /\ UNCHANGED <<written, ui>>
  \/ \E v \in VolumeIdInputs : DeleteVolume(v) /\ UNCHANGED <<written, ui>>
  \/ \E t \in StructureTitles : CreateChapter(t, None) /\ UNCHANGED <<written, ui>>
  \/ \E c \in ChapterIds : DeleteChapter(c) /\ UNCHANGED <<written, ui>>
  \/ \E c \in ChapterIds, x \in RoundTripContents :
       UpdateChapterContent(c, x, None) /\ UNCHANGED <<written, ui>>

SpecFailure == Init /\ [][FailureNext]_vars

\* Deleting among edited chapters: chapters are created in either volume,
\* written up to FrameVersions times each, so that they have snapshots, and
\* deleted one by one.
FrameContents == {<<"a">>, <<"a", " ", "b">>}
FrameVersions == 2

FrameNext ==
  \/ \E t \in StructureTitles : CreateVolume(t) /\ UNCHANGED <<written, ui>>
  \/ \E t \in StructureTitles, vopt \in VolumeOptions :
       CreateChapter(t, vopt) /\ UNCHANGED <<written, ui>>
  \/ \E c \in ChapterIds, x \in FrameContents :
       /\ c \in DOMAIN chapters => chapters[c].current_version < FrameVersions
       /\ UpdateChapterContent(c, x, None) /\ UNCHANGED <<written, ui>>
  \/ \E c \in ChapterIds, st \in RoundTripStatuses :
       UpdateChapterStatus(c, st) /\ UNCHANGED <<written, ui>>
  \/ \E c \in ChapterIds : DeleteChapter(c) /\ UNCHANGED <<written, ui>>

SpecFrame == InitReady /\ [][FrameNext]_vars

\* The chapters panel over an initialized project on disk, as the panel is
\* wired: it loads the project, creates through its toolbar, selects,
\* expands and collapses by click.
PanelNext ==
  \/ PanelLoadProject /\ UNCHANGED <<written, ai_panel>>
  \/ PanelCreateChapter /\ UNCHANGED <<written, ai_panel>>
  \/ PanelCreateVolume /\ UNCHANGED <<written, ai_panel>>
  \/ \E v \in VolumeIdInputs : ClickVolume(v) /\ UNCHANGED <<written, ai_panel>>
  \/ \E v \in VolumeIdInputs : ClickExpand(v) /\ UNCHANGED <<written, ai_panel>>
  \/ \E c \in ChapterIds : ClickChapter(c) /\ UNCHANGED <<written, ai_panel>>
  \/ CollapseAll /\ UNCHANGED <<written, ai_panel>>
  \/ ExpandAll /\ UNCHANGED <<written, ai_panel>>

SpecPanel == InitReady /\ [][PanelNext]_vars

\* The same panel with its handlers of the actions DeleteChapter and
\* RenameChapter dispatched as well.  delete_selected, start_rename and
\* complete_rename are private and nothing in the panel's file calls them or
\* binds them to an action or a button, so these steps say what the handlers
\* do once they are bound; they are no steps of Next.
PanelActionsNext ==
  \/ PanelLoadProject /\ UNCHANGED <<written, ai_panel>>
  \/ PanelCreateChapter /\ UNCHANGED <<written, ai_panel>>
  \/ PanelCreateVolume /\ UNCHANGED <<written, ai_panel>>
  \/ \E v \in VolumeIdInputs : ClickVolume(v) /\ UNCHANGED <<written, ai_panel>>
  \/ \E v \in VolumeIdInputs : ClickExpand(v) /\ UNCHANGED <<written, ai_panel>>
  \/ \E c \in ChapterIds : ClickChapter(c) /\ UNCHANGED <<written, ai_panel>>
  \/ CollapseAll /\ UNCHANGED <<written, ai_panel>>
  \/ ExpandAll /\ UNCHANGED <<written, ai_panel>>
  \/ DeleteSelected /\ UNCHANGED <<written, ai_panel>>
  \/ StartRename /\ UNCHANGED <<written, ai_panel>>
  \/ \E t \in RenameInputs : CompleteRename(t) /\ UNCHANGED <<written, ai_panel>>

SpecPanelActions == InitReady /\ [][PanelActionsNext]_vars

\* The AI panel: the user sends messages and quick actions while the future
\* of the running request is polled.
AiNext ==
  \/ SendMessage /\ UNCHANGED <<mem, disk, next_uuid, written, chapters_panel>>
  \/ \E action \in QuickActionInputs :
       ExecuteQuickAction(action) /\ UNCHANGED <<mem, disk, next_uuid, written, chapters_panel>>
  \/ \E configured \in BOOLEAN :
       RequestStart(configured) /\ UNCHANGED <<mem, disk, next_uuid, last, written, chapters_panel>>
  \/ RequestConnected /\ UNCHANGED <<mem, disk, next_uuid, last, written, chapters_panel>>
  \/ \E e \in CallErrors :
       RequestRefused(e) /\ UNCHANGED <<mem, disk, next_uuid, last, written, chapters_panel>>
  \/ \E text \in StreamTexts :
       StreamItem(text) /\ UNCHANGED <<mem, disk, next_uuid, last, written, chapters_panel>>
  \/ StreamError /\ UNCHANGED <<mem, disk, next_uuid, last, written, chapters_panel>>
  \/ StreamEnd /\ UNCHANGED <<mem, disk, next_uuid, last, written, chapters_panel>>

SpecAi == Init /\ [][AiNext]_vars

\* The same, with the executor polling a spawned future until it ends and the
\* stream delivering an item, an error or its end whenever the future waits
PolledRequest ==
  RequestNext /\ UNCHANGED <<mem, disk, next_uuid, last, written, chapters_panel>>

SpecAiLive == SpecAi /\ WF_vars(PolledRequest)

\* ================================================================ claims
\* the volumes (positions) whose chapter_ids list the id
VolumesListing(id) == {i \in DOMAIN volumes : id \in Range(volumes[i].chapter_ids)}

\* the chapters of the index owned by the volume id
OwnedBy(chs, vid) == {id \in DOMAIN chs : chs[id].volume_id = vid}

\* the history files of a chapter's directory
HistoryOf(dirs, name) == IF name \in DOMAIN dirs THEN dirs[name].history ELSE EmptyMap

\* C1 (I1): every ChapterId appears in at most one volume's chapter_ids.
C1_AtMostOneVolume ==
  \A id \in ChapterIds : Cardinality(VolumesListing(id)) <= 1

\* C2 (I2): in every volume, chapter_ids is as long as the number of chapters
\* of the index owned by the volume, and the chapter at index i has order i.
C2_ListMatchesOwnership ==
  \A i \in DOMAIN volumes :
    /\ Len(volumes[i].chapter_ids) = Cardinality(OwnedBy(chapters, volumes[i].id))
    /\ \A k \in DOMAIN volumes[i].chapter_ids :
         /\ volumes[i].chapter_ids[k] \in DOMAIN chapters
         /\ chapters[volumes[i].chapter_ids[k]].order = k - 1

\* C3: a successful create_chapter returns an id that no chapter of the index
\* had, the index grows by exactly one, and the new chapter is stored under
\* the returned id with the given title.
C3_CreateAllocatesUniqueId ==
  [][\A t \in Titles, vopt \in VolumeOptions :
       (CreateChapter(t, vopt) /\ last'.ok) =>
         /\ Unwrap(last'.ret) \notin DOMAIN chapters
         /\ Cardinality(DOMAIN chapters') = Cardinality(DOMAIN chapters) + 1
         /\ Unwrap(last'.ret) \in DOMAIN chapters'
         /\ chapters'[Unwrap(last'.ret)].id = Unwrap(last'.ret)
         /\ chapters'[Unwrap(last'.ret)].title = t]_vars

\* C4 (I4): a chapter's current_version is greater than every version number
\* among the snapshots of its history.
C4_VersionAboveHistory ==
  \A id \in DOMAIN chapters :
    \A f \in DOMAIN HistoryOf(chapter_dirs, chapters[id].dir_path) :
      chapters[id].current_version > HistoryOf(chapter_dirs, chapters[id].dir_path)[f].version

\* C5: while a chapter exists, no step removes one of its snapshots or
\* changes a snapshot's content.
C5_HistoryImmutable ==
  [][\A id \in (DOMAIN chapters) \cap (DOMAIN chapters') :
       \A f \in DOMAIN HistoryOf(chapter_dirs, chapters[id].dir_path) :
         /\ f \in DOMAIN HistoryOf(chapter_dirs', chapters'[id].dir_path)
         /\ HistoryOf(chapter_dirs', chapters'[id].dir_path)[f].content
              = HistoryOf(chapter_dirs, chapters[id].dir_path)[f].content]_vars

\* the contents for which every update after the first writes a snapshot:
\* each content but the last is non-empty and differs from the one written
\* after it
EachUpdateSnapshots(log) ==
  \A k \in 1 .. (Len(log) - 1) : log[k] # <<>> /\ log[k] # log[k + 1]

\* C6: after N >= 1 update_chapter_content calls on a freshly created chapter
\* (content initially empty), current_version is N, the content is the last
\* one written and get_version_history returns exactly N - 1 entries.  The
\* count is stated for the contents with which every update after the first
\* has something to snapshot, the case of the claim in which the snapshot
\* rule of update_chapter_content gives N - 1.
C6_UpdatesCountVersions ==
  \A id \in (DOMAIN written) \cap (DOMAIN chapters) :
    LET N == Len(written[id].log)
        log == written[id].log
    IN N >= 1 =>
         /\ chapters[id].current_version = N
         /\ chapters[id].content = log[N]
         /\ EachUpdateSnapshots(log) => Len(VersionHistory(id)) = N - 1

\* the largest version number among the history files of a directory
MaxHistoryVersion(d) == Max({d.history[f].version : f \in DOMAIN d.history})

\* C7: a successful load gives every chapter it reconstructs from a chapter
\* directory the version one plus the largest version number of the
\* directory's history files, or 0 when the directory has no history.
C7_LoadDerivesVersion ==
  [][(Load /\ last'.ok) =>
       \A n \in LoadableDirs(chapter_dirs) :
         LET id == Unwrap(chapter_dirs[n].metadata).id
         IN chapters'[id].current_version =
              IF DOMAIN chapter_dirs[n].history = {} THEN 0
              ELSE 1 + MaxHistoryVersion(chapter_dirs[n])]_vars

\* C8: whenever the project can be loaded, the project that load returns has
\* the title, the number of volumes and the number of chapters of the project
\* in memory, and every chapter has the same content and status in both.
C8_RoundTrip ==
  CanLoad(root_dirs, novel_files) =>
    LET p == LoadProject(root_dirs, novel_files, chapter_dirs)
    IN /\ p.title = title
       /\ Len(p.volumes) = Len(volumes)
       /\ Cardinality(DOMAIN p.chapters) = Cardinality(DOMAIN chapters)
       /\ \A id \in DOMAIN chapters :
            /\ id \in DOMAIN p.chapters
            /\ p.chapters[id].content = chapters[id].content
            /\ p.chapters[id].status = chapters[id].status

C8_Witness ==
  /\ last.op = "load" /\ last.ok
  /\ Len(volumes) = 2
  /\ \E id \in DOMAIN chapters :
       chapters[id].content # <<>> /\ chapters[id].status # "NotStarted"

\* C9 (I6): the directory chapters/chapter-<id> exists exactly when the index
\* holds a chapter with that id.
C9_DirectoryIffChapter ==
  /\ \A id \in ChapterIdInputs :
       (ChapterDirName(id) \in DOMAIN chapter_dirs) <=> (id \in DOMAIN chapters)
  /\ DOMAIN chapter_dirs \subseteq {ChapterDirName(id) : id \in ChapterIdInputs}

C9_Witness ==
  /\ last.op = "delete_volume" /\ last.ok
  /\ 1 \in DOMAIN chapters
  /\ 0 \notin DOMAIN chapters
  /\ ChapterDirName(0) \notin DOMAIN chapter_dirs

\* C10: a delete_volume that finds its volume leaves no chapter that was
\* owned by the volume in the index, and none of their directories on disk.
C10_DeleteVolumeRemovesOwned ==
  [][\A v \in VolumeIdInputs :
       (DeleteVolume(v) /\ last'.ok /\ VolumePosition(volumes, v) # 0) =>
         \A id \in OwnedBy(chapters, v) :
           /\ id \notin DOMAIN chapters'
           /\ chapters[id].dir_path \notin DOMAIN chapter_dirs']_vars

\* C11 (I3): the order fields of the volumes are exactly 0..N-1, and each
\* volume's order is its index in the project's volume list.
C11_VolumeOrderDense ==
  \A i \in DOMAIN volumes : volumes[i].order = i - 1

\* a volume that was created second is the only one left after a deletion
C11_Witness ==
  /\ last.op = "delete_volume" /\ last.ok
  /\ Len(volumes) = 1
  /\ volumes[1].id # 1
  /\ volumes[1].order = 0

\* C12: restore_version(id, v) on a chapter of the index whose history has no
\* snapshot file for v returns an error and leaves the chapter (content,
\* current_version, word_count) and its history snapshots as they were.
C12_RestoreMissingFails ==
  [][\A c \in ChapterIds, n \in VersionInputs :
       (/\ c \in DOMAIN chapters
        /\ VersionFileName(n) \notin DOMAIN HistoryOf(chapter_dirs, chapters[c].dir_path)
        /\ RestoreVersion(c, n)) =>
         /\ ~last'.ok
         /\ c \in DOMAIN chapters'
         /\ chapters'[c].content = chapters[c].content
         /\ chapters'[c].current_version = chapters[c].current_version
         /\ chapters'[c].word_count = chapters[c].word_count
         /\ HistoryOf(chapter_dirs', chapters'[c].dir_path)
              = HistoryOf(chapter_dirs, chapters[c].dir_path)]_vars

\* a restore failed on a project holding a chapter with text and snapshots
C12_Witness ==
  /\ last.op = "restore_version" /\ ~last.ok
  /\ \E c \in DOMAIN chapters :
       /\ chapters[c].content # <<>>
       /\ DOMAIN HistoryOf(chapter_dirs, chapters[c].dir_path) # {}
       /\ \E n \in VersionInputs :
            VersionFileName(n) \notin DOMAIN HistoryOf(chapter_dirs, chapters[c].dir_path)

\* C13: reorder_chapters_in_volume(v, ids) on an existing volume v, where ids
\* holds an id that is not in the index or a chapter whose volume_id is not
\* v, returns an error and leaves every volume's chapter_ids and every
\* chapter's order as they were.
C13_ReorderRejectsForeignIds ==
  [][\A v \in VolumeIdInputs, o \in StructureOrders :
       (/\ VolumePosition(volumes, v) # 0
        /\ \E i \in DOMAIN o : o[i] \notin DOMAIN chapters \/ chapters[o[i]].volume_id # v
        /\ ReorderChaptersInVolume(v, o)) =>
         /\ ~last'.ok
         /\ volumes' = volumes
         /\ chapters' = chapters]_vars

\* a reorder was rejected because of a chapter that exists in another volume
C13_Witness ==
  /\ last.op = "reorder_chapters_in_volume" /\ ~last.ok
  /\ IsSome(last.ret)
  /\ Unwrap(last.ret) \in DOMAIN chapters
  /\ \E i \in DOMAIN volumes :
       /\ volumes[i].id # chapters[Unwrap(last.ret)].volume_id
       /\ volumes[i].chapter_ids # <<>>

\* C14 (I2, order part): in every volume, the chapter listed at index i of
\* chapter_ids is in the index and has cached order i; this is to hold after
\* every successful operation, move_chapter_to_volume included.
C14_OrderMatchesIndex ==
  \A i \in DOMAIN volumes :
    \A k \in DOMAIN volumes[i].chapter_ids :
      /\ volumes[i].chapter_ids[k] \in DOMAIN chapters
      /\ chapters[volumes[i].chapter_ids[k]].order = k - 1

\* the list without the first occurrence of e
WithoutFirst(s, e) == IF e \in Range(s) THEN RemoveAt(s, Position(s, e)) ELSE s

\* the chapter_ids of the volume with the given id
ChapterIdsOf(vols, vid) == vols[VolumePosition(vols, vid)].chapter_ids

\* C15: move_chapter_to_volume(c, t, p) with a chapter c of the index and an
\* existing volume t succeeds for every p.  With L the chapter_ids of t after
\* c was removed from its source volume, the new chapter_ids of t has c at
\* index min(p, Len(L)), so a p beyond the end appends c, and is L once that
\* element is taken out again; the volume_id of c becomes t.
C15_MoveClampsPosition ==
  [][\A c \in ChapterIds, t \in VolumeIdInputs, p \in PositionInputs :
       (/\ c \in DOMAIN chapters
        /\ VolumePosition(volumes, t) # 0
        /\ MoveChapterToVolume(c, t, p)) =>
         LET L == IF chapters[c].volume_id = t
                  THEN WithoutFirst(ChapterIdsOf(volumes, t), c)
                  ELSE ChapterIdsOf(volumes, t)
             q == Min2(p, Len(L))
             after == ChapterIdsOf(volumes', t)
         IN /\ last'.ok
            /\ Len(after) = Len(L) + 1
            /\ after[q + 1] = c
            /\ RemoveAt(after, q + 1) = L
            /\ p >= Len(L) => after[Len(after)] = c
            /\ chapters'[c].volume_id = t]_vars

\* a chapter created elsewhere was moved behind the chapter of another volume
C15_Witness ==
  /\ last.op = "move_chapter_to_volume" /\ last.ok
  /\ \E i \in DOMAIN volumes :
       /\ Len(volumes[i].chapter_ids) = 2
       /\ volumes[i].chapter_ids[1] # volumes[i].chapter_ids[2]
       /\ chapters[volumes[i].chapter_ids[2]].volume_id = volumes[i].id
       /\ chapters[volumes[i].chapter_ids[2]].order # 1

\* C16: after any sequence of update_chapter_content and restore_version
\* calls on a chapter, every snapshot of its history is tagged with a version
\* n that the chapter has left behind, is stored as v<n>.json, and holds the
\* content the chapter had while its current_version was n: the content set
\* by the n-th call.
C16_SnapshotHoldsVersionContent ==
  \A id \in (DOMAIN written) \cap (DOMAIN chapters) :
    LET log == written[id].log
        history == HistoryOf(chapter_dirs, chapters[id].dir_path)
    IN \A f \in DOMAIN history :
         /\ history[f].version \in 1 .. (Len(log) - 1)
         /\ f = VersionFileName(history[f].version)
         /\ history[f].content = log[history[f].version]

\* C17: a successful restore_version(id, n) sets the chapter's content to the
\* content stored in snapshot n and makes current_version exactly one more
\* than before the call, whatever n is; for a chapter created in a directory
\* without earlier history the new current_version is therefore above n.
C17_RestoreBumpsVersion ==
  [][\A c \in ChapterIds, n \in VersionInputs :
       (/\ c \in DOMAIN chapters
        /\ VersionFileName(n) \in DOMAIN HistoryOf(chapter_dirs, chapters[c].dir_path)
        /\ RestoreVersion(c, n)
        /\ last'.ok) =>
         /\ chapters'[c].content
              = HistoryOf(chapter_dirs, chapters[c].dir_path)[VersionFileName(n)].content
         /\ chapters'[c].current_version = chapters[c].current_version + 1
         /\ (c \in DOMAIN written /\ written[c].clean) => chapters'[c].current_version > n]_vars

\* the oldest snapshot was restored over a later text of the chapter
C17_Witness ==
  /\ last.op = "restore_version" /\ last.ok
  /\ \E c \in (DOMAIN written) \cap (DOMAIN chapters) :
       LET history == HistoryOf(chapter_dirs, chapters[c].dir_path)
       IN /\ written[c].clean
          /\ chapters[c].current_version = MaxVersion
          /\ VersionFileName(1) \in DOMAIN history
          /\ VersionFileName(MaxVersion - 1) \in DOMAIN history
          /\ chapters[c].content = history[VersionFileName(1)].content
          /\ chapters[c].content # history[VersionFileName(MaxVersion - 1)].content

\* C18, as stated: after every successful restore_version(id, n) the history
\* holds a snapshot tagged with the current_version of before the call whose
\* content is the content of before the call.
C18_Original ==
  [][\A c \in ChapterIds, n \in VersionInputs :
       (/\ c \in DOMAIN chapters
        /\ VersionFileName(n) \in DOMAIN HistoryOf(chapter_dirs, chapters[c].dir_path)
        /\ RestoreVersion(c, n)
        /\ last'.ok) =>
         LET after == HistoryOf(chapter_dirs', chapters'[c].dir_path)
             tag == VersionFileName(chapters[c].current_version)
         IN /\ tag \in DOMAIN after
            /\ after[tag].version = chapters[c].current_version
            /\ after[tag].content = chapters[c].content]_vars

\* C18, amended: after a successful restore_version(id, n) on a chapter whose
\* content was non-empty and different from the content of snapshot n, the
\* history holds a snapshot tagged with the current_version of before the
\* call whose content is the content of before the call; when the content was
\* empty or equal to the content of snapshot n, the restore writes no
\* snapshot and the history is as it was.
C18_RestoreSnapshotsReplacedText ==
  [][\A c \in ChapterIds, n \in VersionInputs :
       (/\ c \in DOMAIN chapters
        /\ VersionFileName(n) \in DOMAIN HistoryOf(chapter_dirs, chapters[c].dir_path)
        /\ RestoreVersion(c, n)
        /\ last'.ok) =>
         LET before == HistoryOf(chapter_dirs, chapters[c].dir_path)
             after == HistoryOf(chapter_dirs', chapters'[c].dir_path)
             tag == VersionFileName(chapters[c].current_version)
         IN IF chapters[c].content # <<>>
               /\ chapters[c].content # before[VersionFileName(n)].content
            THEN /\ tag \in DOMAIN after
                 /\ after[tag].version = chapters[c].current_version
                 /\ after[tag].content = chapters[c].content
            ELSE after = before]_vars

\* the latest snapshot of a chapter was written by a restore
C18_Witness ==
  /\ last.op = "restore_version" /\ last.ok
  /\ \E c \in (DOMAIN written) \cap (DOMAIN chapters) :
       LET history == HistoryOf(chapter_dirs, chapters[c].dir_path)
           tag == VersionFileName(chapters[c].current_version - 1)
       IN /\ written[c].clean
          /\ tag \in DOMAIN history
          /\ history[tag].summary \in {RestoreSummary(n) : n \in VersionInputs}
          /\ history[tag].content # chapters[c].content

\* C19: a successful create_chapter(title, volume_id) targets the volume
\* named by volume_id, or the first volume of the list when volume_id is
\* None: the returned id is appended to that volume's chapter_ids, the new
\* chapter has that volume as volume_id and the volume's previous chapter
\* count as order, and no other volume's chapter_ids changes.
C19_CreatePlacesInTarget ==
  [][\A t \in StructureTitles, vopt \in VolumeOptions :
       (CreateChapter(t, vopt) /\ last'.ok) =>
         LET id == Unwrap(last'.ret)
             target == IF IsSome(vopt) THEN Unwrap(vopt) ELSE volumes[1].id
             i == VolumePosition(volumes, target)
         IN /\ i # 0
            /\ Len(volumes') = Len(volumes)
            /\ volumes'[i].chapter_ids = Append(volumes[i].chapter_ids, id)
            /\ chapters'[id].volume_id = target
            /\ chapters'[id].order = Len(volumes[i].chapter_ids)
            /\ \A j \in DOMAIN volumes :
                 j # i => volumes'[j].chapter_ids = volumes[j].chapter_ids]_vars

\* a chapter was created behind another one in the volume created second
C19_Witness ==
  /\ last.op = "create_chapter" /\ last.ok
  /\ \E i \in DOMAIN volumes :
       /\ volumes[i].id # 1
       /\ Len(volumes[i].chapter_ids) = 2
       /\ volumes[i].chapter_ids[2] = Unwrap(last.ret)
       /\ chapters[Unwrap(last.ret)].volume_id = volumes[i].id
       /\ chapters[Unwrap(last.ret)].order = 1

\* C20: create_chapter with Some(volume_id) naming no volume of the project
\* returns an error and changes nothing: the index, every volume's
\* chapter_ids and the directories and files on disk are as they were.
C20_CreateUnknownVolumeFails ==
  [][\A t \in StructureTitles, vopt \in VolumeOptions :
       (/\ IsSome(vopt)
        /\ VolumePosition(volumes, Unwrap(vopt)) = 0
        /\ CreateChapter(t, vopt)) =>
         /\ ~last'.ok
         /\ chapters' = chapters
         /\ volumes' = volumes
         /\ chapter_dirs' = chapter_dirs
         /\ root_dirs' = root_dirs
         /\ novel_files' = novel_files]_vars

\* a create_chapter failed on a project that has a volume and a chapter
C20_Witness ==
  /\ last.op = "create_chapter" /\ ~last.ok
  /\ Len(volumes) >= 1
  /\ DOMAIN chapters # {}

\* the elements of q that are in S, in the order of q
Restrict(q, S) == SelectSeq(q, LAMBDA x : x \in S)

\* C21: after a successful reorder_chapters_in_volume(v, P) with P a listing
\* without repeats of the chapters owned by v, every listing that
\* get_all_chapters_in_order can return has the chapters of v in the order P,
\* after every chapter of a volume of lower order and before every chapter of
\* a volume of higher order.
C21_ReorderShowsInListing ==
  [][\A v \in VolumeIdInputs, P \in StructureOrders :
       (/\ VolumePosition(volumes, v) # 0
        /\ P \in Listings(OwnedBy(chapters, v))
        /\ ReorderChaptersInVolume(v, P)
        /\ last'.ok) =>
         \A q \in AllChaptersInOrder(chapters', volumes') :
           /\ Restrict(q, Range(P)) = P
           /\ \A i \in DOMAIN q, j \in DOMAIN q :
                LET wi == VolumePosition(volumes', chapters'[q[i]].volume_id)
                IN (/\ q[j] \in Range(P)
                    /\ wi # 0
                    /\ wi # VolumePosition(volumes', v)) =>
                     (i < j <=> wi < VolumePosition(volumes', v))]_vars

\* two chapters of one volume were swapped and the listing shows the swap
C21_Witness ==
  /\ last.op = "reorder_chapters_in_volume" /\ last.ok
  /\ \E i \in DOMAIN volumes :
       /\ volumes[i].chapter_ids = <<1, 0>>
       /\ OwnedBy(chapters, volumes[i].id) = {0, 1}
  /\ AllChaptersInOrder(chapters, volumes) = {<<1, 0>>}

\* C22: delete_volume, rename_volume, delete_chapter, rename_chapter and
\* update_chapter_content called with an id that names no volume (no chapter)
\* return Ok and leave the project in memory and everything on disk unchanged.
C22_LookupMissesAreNoOps ==
  [][/\ \A v \in VolumeIdInputs, t \in RenameTitles :
          (VolumePosition(volumes, v) = 0 /\ (DeleteVolume(v) \/ RenameVolume(v, t))) =>
            (last'.ok /\ UNCHANGED <<mem, disk>>)
     /\ \A c \in ChapterIds, t \in RenameTitles, x \in RoundTripContents :
          (/\ c \notin DOMAIN chapters
           /\ (DeleteChapter(c) \/ RenameChapter(c, t) \/ UpdateChapterContent(c, x, None))) =>
            (last'.ok /\ UNCHANGED <<mem, disk>>)]_vars

\* a content update that can only have missed: no chapter has a version yet
C22_Witness ==
  /\ last.op = "update_chapter_content" /\ last.ok
  /\ DOMAIN chapters # {}
  /\ \A c \in DOMAIN chapters : chapters[c].current_version = 0

\* C23: move_chapter_to_volume with a chapter id that is not in the index
\* returns an error and leaves every volume's chapter_ids and every chapter's
\* volume_id as they were.
C23_MoveUnknownChapterFails ==
  [][\A c \in ChapterIds, t \in VolumeIdInputs, p \in PositionInputs :
       (c \notin DOMAIN chapters /\ MoveChapterToVolume(c, t, p)) =>
         /\ ~last'.ok
         /\ volumes' = volumes
         /\ chapters' = chapters]_vars

\* a move failed on a project with two volumes and a chapter
C23_Witness ==
  /\ last.op = "move_chapter_to_volume" /\ ~last.ok
  /\ Len(volumes) = 2
  /\ DOMAIN chapters # {}

\* C24: update_chapter_status(id, status) on a chapter of the index sets the
\* status in memory, rewrites the chapter's metadata.json, and saves the root
\* metadata, so that right after the call project.json records the status.
C24_StatusReachesRootMetadata ==
  [][\A c \in ChapterIds, st \in RoundTripStatuses :
       (c \in DOMAIN chapters /\ UpdateChapterStatus(c, st) /\ last'.ok) =>
         /\ chapters'[c].status = st
         /\ Unwrap(chapter_dirs'[chapters'[c].dir_path].metadata).status = st
         /\ c \in DOMAIN novel_files'[ProjectFile].chapters
         /\ novel_files'[ProjectFile].chapters[c].status = st]_vars

\* the history files of the directory that are new or differ from before
WrittenSnapshots(before, after) ==
  {f \in DOMAIN after : f \notin DOMAIN before \/ after[f] # before[f]}

\* C25: update_chapter_content on a chapter of the index leaves project.json
\* and the three settings files as they were; on disk only the chapter's own
\* directory changes: content.md holds the new content, metadata.json the
\* updated chapter, and at most one history snapshot is new.
C25_ContentUpdateSkipsRootMetadata ==
  [][\A c \in ChapterIds, x \in Contents :
       (c \in DOMAIN chapters /\ UpdateChapterContent(c, x, None) /\ last'.ok) =>
         LET name == chapters[c].dir_path
         IN /\ novel_files' = novel_files
            /\ DOMAIN chapter_dirs' = DOMAIN chapter_dirs
            /\ \A n \in DOMAIN chapter_dirs : n # name => chapter_dirs'[n] = chapter_dirs[n]
            /\ chapter_dirs'[name].content = Some(x)
            /\ chapter_dirs'[name].metadata = Some(chapters'[c])
            /\ DOMAIN chapter_dirs[name].history \subseteq DOMAIN chapter_dirs'[name].history
            /\ Cardinality(WrittenSnapshots(chapter_dirs[name].history,
                                            chapter_dirs'[name].history)) <= 1]_vars

\* a content update wrote a snapshot and project.json still has the old text
C25_Witness ==
  /\ last.op = "update_chapter_content" /\ last.ok
  /\ \E c \in DOMAIN chapters :
       LET history == HistoryOf(chapter_dirs, chapters[c].dir_path)
           tag == VersionFileName(chapters[c].current_version - 1)
       IN /\ tag \in DOMAIN history
          /\ history[tag].summary = AutoSaveSummary
          /\ c \in DOMAIN novel_files[ProjectFile].chapters
          /\ novel_files[ProjectFile].chapters[c].content # chapters[c].content

\* C26: get_version_history(id) for a chapter of the index returns Ok with
\* exactly the snapshots stored in the files of the chapter's history, one
\* entry per file, in strictly descending order of version, and the empty
\* sequence when there is no history directory; for an id that is not in the
\* index it returns an error.
C26_HistoryListedDescending ==
  [][\A c \in ChapterIds :
       GetVersionHistory(c) =>
         IF c \in DOMAIN chapters
         THEN LET history == HistoryOf(chapter_dirs, chapters[c].dir_path)
                  r == Unwrap(last'.ret)
              IN /\ last'.ok
                 /\ Len(r) = Cardinality(DOMAIN history)
                 /\ Range(r) = {history[f] : f \in DOMAIN history}
                 /\ \A i \in DOMAIN r, j \in DOMAIN r : i < j => r[i].version > r[j].version
                 /\ ~HasHistoryDir(chapters[c].dir_path) => r = <<>>
         ELSE ~last'.ok]_vars

\* a history of three snapshots was returned, newest first
C26_Witness ==
  /\ last.op = "get_version_history" /\ last.ok
  /\ Len(Unwrap(last.ret)) = MaxVersion - 1
  /\ Unwrap(last.ret)[1].version = MaxVersion - 1
  /\ Unwrap(last.ret)[MaxVersion - 1].version = 1

\* a project as the constructor leaves it: one volume, of order 0 and without
\* chapters, and an empty chapter index
NewProjectShape ==
  /\ Len(volumes) = 1
  /\ volumes[1].order = 0
  /\ volumes[1].chapter_ids = <<>>
  /\ DOMAIN chapters = {}

\* C27: NovelProject::new(root, title) gives a project with the title, with
\* exactly one volume of order 0 and no chapters, and with an empty chapter
\* index, and leaves every directory and file on disk as it was.
C27_NewProjectIsEmpty ==
  /\ NewProjectShape
  /\ [][\A t \in ProjectTitles :
          New(t) => (title' = t /\ NewProjectShape' /\ UNCHANGED disk)]_vars

\* a project was constructed over a root that already holds a chapter
C27_Witness ==
  /\ last.op = "new"
  /\ NewProjectShape
  /\ DOMAIN chapter_dirs # {}
  /\ ProjectFile \in DOMAIN novel_files

\* the number of whitespace-delimited tokens of a text: the positions where a
\* token starts
Tokens(s) ==
  Cardinality({i \in DOMAIN s :
                 s[i] \notin Whitespace /\ (i = 1 \/ s[i - 1] \in Whitespace)})

\* C28 (I5): every chapter's word_count is the number of whitespace-delimited
\* tokens of its content, and every history snapshot's word_count is the
\* number of tokens of the snapshot's content.
C28_WordCountMatchesContent ==
  /\ \A c \in DOMAIN chapters : chapters[c].word_count = Tokens(chapters[c].content)
  /\ \A n \in DOMAIN chapter_dirs :
       \A f \in DOMAIN chapter_dirs[n].history :
         chapter_dirs[n].history[f].word_count = Tokens(chapter_dirs[n].history[f].content)

\* a loaded chapter of two words with a snapshot of one word
C28_Witness ==
  /\ last.op = "load" /\ last.ok
  /\ \E c \in DOMAIN chapters :
       /\ chapters[c].word_count = 2
       /\ \E f \in DOMAIN HistoryOf(chapter_dirs, chapters[c].dir_path) :
            HistoryOf(chapter_dirs, chapters[c].dir_path)[f].word_count = 1

\* the number of times the id occurs in the list
Occurrences(s, e) == Cardinality({i \in DOMAIN s : s[i] = e})

\* C29: every chapter of the index has a volume_id that names a volume of the
\* project, and is listed exactly once in that volume's chapter_ids.
C29_MembershipConsistent ==
  \A c \in DOMAIN chapters :
    /\ VolumePosition(volumes, chapters[c].volume_id) # 0
    /\ Occurrences(ChapterIdsOf(volumes, chapters[c].volume_id), c) = 1

\* C30: every id in a volume's chapter_ids is the key of a chapter of the
\* index.
C30_NoDanglingIds ==
  \A i \in DOMAIN volumes :
    \A k \in DOMAIN volumes[i].chapter_ids : volumes[i].chapter_ids[k] \in DOMAIN chapters

\* C31: the chapter a successful create_chapter returns has empty content,
\* current_version 0 and an empty version history, and the call changes no
\* content, version or history of a chapter that existed before it.
C31_CreatedChapterStartsClean ==
  [][\A t \in StructureTitles, id \in ChapterIds :
       (CreateChapter(t, None) /\ last'.ok /\ last'.ret = Some(id)) =>
         /\ chapters'[id].content = <<>>
         /\ chapters'[id].current_version = 0
         /\ VersionHistory(id)' = <<>>
         /\ \A c \in DOMAIN chapters :
              /\ c \in DOMAIN chapters'
              /\ chapters'[c].content = chapters[c].content
              /\ chapters'[c].current_version = chapters[c].current_version
              /\ HistoryOf(chapter_dirs', chapters'[c].dir_path)
                   = HistoryOf(chapter_dirs, chapters[c].dir_path)]_vars

\* C32: whenever the project can be loaded, every chapter of the project that
\* load returns has the current_version the chapter has in memory.
C32_LoadPreservesVersion ==
  CanLoad(root_dirs, novel_files) =>
    LET p == LoadProject(root_dirs, novel_files, chapter_dirs)
    IN \A id \in DOMAIN chapters :
         /\ id \in DOMAIN p.chapters
         /\ p.chapters[id].current_version = chapters[id].current_version

\* C33: when create_chapter, delete_chapter, delete_volume or
\* update_chapter_content returns an error from a file-system step, the
\* project in memory (title, volumes, chapters, settings) is what it was
\* before the call.
C33_FailureLeavesMemory ==
  [][((\/ \E t \in StructureTitles :
            CreateChapter(t, None) /\ TargetVolumePosition(volumes, None) # 0
       \/ \E c \in ChapterIds : DeleteChapter(c)
       \/ \E v \in VolumeIdInputs : DeleteVolume(v)
       \/ \E c \in ChapterIds, x \in RoundTripContents : UpdateChapterContent(c, x, None))
      /\ ~last'.ok)
     => UNCHANGED mem]_vars

\* the lists get_chapters_for_volume returns for the first n volumes, one
\* after the other in the order of self.volumes
RECURSIVE VolumeListsJoined(_, _, _)
VolumeListsJoined(chs, vols, n) ==
  IF n = 0 THEN <<>>
  ELSE VolumeListsJoined(chs, vols, n - 1) \o ChaptersForVolume(chs, vols, vols[n].id)

\* C34: in every listing get_all_chapters_in_order can return, the chapters
\* whose volume_id is v are, in that order, the list get_chapters_for_volume(v)
\* returns, for every volume v, and the whole listing is these lists joined in
\* volume order.
C34_QueriesAgree ==
  \A q \in AllChaptersInOrder(chapters, volumes) :
    /\ \A i \in DOMAIN volumes :
         Restrict(q, OwnedBy(chapters, volumes[i].id))
           = ChaptersForVolume(chapters, volumes, volumes[i].id)
    /\ q = VolumeListsJoined(chapters, volumes, Len(volumes))

\* C35: a delete_chapter(id) that finds its chapter leaves every other chapter
\* in the index with its content, current_version, status, volume_id and
\* history snapshots, leaves the chapter_ids of every volume that did not list
\* id as they were, and keeps the other members of a volume that listed id in
\* their relative order.
C35_DeleteTouchesOnlyTarget ==
  [][\A c \in ChapterIds :
       (DeleteChapter(c) /\ c \in DOMAIN chapters) =>
         /\ \A o \in (DOMAIN chapters) \ {c} :
              /\ o \in DOMAIN chapters'
              /\ chapters'[o].content = chapters[o].content
              /\ chapters'[o].current_version = chapters[o].current_version
              /\ chapters'[o].status = chapters[o].status
              /\ chapters'[o].volume_id = chapters[o].volume_id
              /\ HistoryOf(chapter_dirs', chapters'[o].dir_path)
                   = HistoryOf(chapter_dirs, chapters[o].dir_path)
         /\ Len(volumes') = Len(volumes)
         /\ \A i \in DOMAIN volumes :
              /\ c \notin Range(volumes[i].chapter_ids) =>
                   volumes'[i].chapter_ids = volumes[i].chapter_ids
              /\ Restrict(volumes'[i].chapter_ids, ChapterIds \ {c})
                   = Restrict(volumes[i].chapter_ids, ChapterIds \ {c})]_vars

C35_Witness ==
  /\ last.op = "delete_chapter" /\ last.ok
  /\ DOMAIN chapters = {1}
  /\ ChapterDirName(0) \notin DOMAIN chapter_dirs
  /\ DOMAIN HistoryOf(chapter_dirs, chapters[1].dir_path) # {}
  /\ chapters[1].status = "Draft"
  /\ Len(volumes) = 2
  /\ volumes[1].chapter_ids = <<>>
  /\ volumes[2].chapter_ids = <<1>>

\* C36: a complete_rename(new_title) that directly follows a start_rename
\* accepted with volume V selected, with new_title not blank and different
\* from V's title, sets V's title to new_title and leaves the title of every
\* other volume as it was.
C36_PanelRenamesSelectedVolume ==
  [][\A v \in VolumeIdInputs, t \in RenameInputs :
       (/\ last = Call("start_rename", TRUE, None)
        /\ selected_item = SelectedVolume(v)
        /\ VolumePosition(volumes, v) # 0
        /\ ~TrimIsEmpty(t)
        /\ t # volumes[VolumePosition(volumes, v)].title
        /\ CompleteRename(t)) =>
         /\ Len(volumes') = Len(volumes)
         /\ \A i \in DOMAIN volumes :
              volumes'[i].title = IF volumes[i].id = v THEN t ELSE volumes[i].title]_vars

\* C37: once the future of a request has run to its end, the message list
\* holds, after the user message of the request, an Assistant message whose
\* content is the response of the request.
C37_AnswerRecorded ==
  request.pc = "done" =>
    \E j \in DOMAIN messages :
      /\ j > request.asked_at
      /\ messages[j].role = "Assistant"
      /\ messages[j].content = Unwrap(request.response)

\* C38: whenever is_generating is true it is false again later, however the
\* future of the request ends.
C38_GeneratingEventuallyReset == is_generating ~> ~is_generating

\* C39: while is_generating is true, send_message and execute_quick_action
\* leave messages, pending_request and the running future as they are,
\* wherever the future stands.
C39_OneRequestInFlight ==
  [][\A action \in QuickActionInputs :
       (is_generating /\ (SendMessage \/ ExecuteQuickAction(action))) =>
         UNCHANGED <<messages, pending_request, request, is_generating>>]_vars

\* a quick action was turned down between two stream callbacks
C39_Witness ==
  /\ is_generating
  /\ last = Call("execute_quick_action", FALSE, None)
  /\ request.pc = "streaming"
  /\ request.items = 1
  /\ Len(messages) = 2

====
